---- MODULE Spec2Model ----
(***************************************************************************)
(* Wildcard expansion engine of the Impact Pack: the wildcard store (full  *)
(* cache / on-demand loading, depth-agnostic fallback, refresh) and the    *)
(* orchestrator process(text, seed), modelled from the listings of         *)
(* docs/wildcards/WILDCARD_SYSTEM_DESIGN.md and WILDCARD_SYSTEM_PRD.md.    *)
(*                                                                         *)
(* A text is a sequence of tokens; a token is a record [t, v].  A wildcard *)
(* key is a string; Segs gives its slash-separated segments.               *)
(***************************************************************************)
EXTENDS Integers, Sequences, FiniteSets, TLC

VARIABLES
    disk,                \* revision of the backing files on disk
    edits,               \* number of edits made to the backing files
    cache_limit,         \* config.wildcard_cache_limit_mb, in size units
    on_demand_mode,      \* _on_demand_mode
    wildcard_dict,       \* full cache mode storage: key -> options
    available_wildcards, \* on-demand metadata: key -> file path
    loaded_wildcards,    \* on-demand loaded data: key -> options
    wildcard_lock,       \* holder of wildcard_lock, or "free"
    rpc,                 \* position of the refresh handler
    pc,                  \* position of the process() call
    in_text, in_seed,    \* arguments of the current process() call
    text,                \* text at the start of the current pass
    work,                \* text of the pass after replace_options
    out,                 \* text rebuilt so far by replace_wildcard in this pass
    pos,                 \* next token of work that replace_wildcard looks at
    rng,                 \* state of the seeded random generator
    iter,                \* passes completed by the current call
    cur,                 \* locals of the get_wildcard_value call in progress
    saw_partial,         \* the call read the indices while a refresh had them cleared
    stale_insert,        \* a value read before a refresh was cached after its rebuild
    clean,               \* no refresh and no disk edit since the call began
    ret,                 \* the value returned by the last completed call
    last,                \* what the last get_wildcard_value call of this call returned
    memo,                \* a remembered completed call, dropped at a refresh or edit
    nodes,               \* frontend: the RunningHub API and API Core nodes of the graph
    graph                \* frontend: the node of the graph whose ports or widgets are edited

vars == <<disk, edits, cache_limit, on_demand_mode, wildcard_dict,
          available_wildcards, loaded_wildcards, wildcard_lock, rpc,
          pc, in_text, in_seed, text, work, out, pos, rng, iter, cur,
          saw_partial, stale_insert, clean, ret, last, memo, nodes, graph>>

env_vars == <<disk, edits, cache_limit>>
store_vars == <<on_demand_mode, wildcard_dict, available_wildcards, loaded_wildcards>>
refresh_vars == <<wildcard_lock, rpc>>
call_vars == <<in_text, in_seed, text, work, out, pos, rng, iter>>
backend_vars == <<env_vars, store_vars, refresh_vars, pc, call_vars, cur,
                  saw_partial, stale_insert, clean, ret, last, memo>>

\* ------------------------------------------------------------------ bounds
MaxEdits == 1
RngMod == 4

\* ------------------------------------------------------- program constants
max_iterations == 100

\* ------------------------------------------------------------------ tokens
Lit(s) == [t |-> "lit", v |-> s]
Wc(s) == [t |-> "wc", v |-> s]
Open == [t |-> "open", v |-> "{"]
Bar == [t |-> "bar", v |-> "|"]
Close == [t |-> "close", v |-> "}"]
Hash == [t |-> "hash", v |-> "#"]
NL == [t |-> "nl", v |-> "\n"]
Sp == [t |-> "sp", v |-> " "]
\* the tokens of a multi-select prefix: a count, the $$ marker, the - of a range
Digits == <<"1", "2", "3", "4", "5", "6", "7", "8", "9", "10">>
Num(n) == [t |-> "num", v |-> Digits[n]]
DD == [t |-> "dd", v |-> "$$"]
Dash == [t |-> "dash", v |-> "-"]
\* the :: that follows the weight of an option
CC == [t |-> "cc", v |-> "::"]

\* ---------------------------------------------------------- key operations
\* the slash-separated segments of a key
Segs(k) ==
    CASE k = "fantasy/dragon" -> <<"fantasy", "dragon">>
      [] k = "dragon/fire"    -> <<"dragon", "fire">>
      [] k = "colors/warm"    -> <<"colors", "warm">>
      [] k = "colors/cold"    -> <<"colors", "cold">>
      [] OTHER                -> <<k>>

\* a normalisation that replaces the backslashes and keeps the case
wildcard_normalizeKeepCase(x) ==
    IF x = "fantasy\\dragon" THEN "fantasy/dragon" ELSE x

\* x.lower().replace('\\', '/')
wildcard_normalize(x) ==
    CASE x = "Dragon" -> "dragon"
      [] x = "DRAGON" -> "dragon"
      [] x = "FLOWER" -> "flower"
      [] x = "Flower" -> "flower"
      [] x = "A"      -> "a"
      [] x = "B"      -> "b"
      [] x = "fantasy\\dragon" -> "fantasy/dragon"
      [] OTHER        -> x

IsPrefixSeq(s, u) == Len(s) <= Len(u) /\ SubSeq(u, 1, Len(s)) = s
IsSuffixSeq(s, u) == Len(s) <= Len(u) /\ SubSeq(u, Len(u) - Len(s) + 1, Len(u)) = s

matches_depth_agnostic(stored_key, search_key) ==
    LET st == Segs(stored_key)
        se == Segs(search_key)
    IN  \/ stored_key = search_key
        \/ Len(st) > Len(se) /\ IsSuffixSeq(se, st)
        \/ Len(st) > Len(se) /\ IsPrefixSeq(se, st)
        \/ \E i \in 2..(Len(st) - Len(se)) : SubSeq(st, i, i + Len(se) - 1) = se

\* ------------------------------------------------------------ dictionaries
EmptyDict == [k \in {} |-> <<>>]
\* a cache that holds the newest entry only
PutEvicting(d, k, v) == [x \in {k} |-> v]
Put(d, k, v) == [x \in DOMAIN d \cup {k} |-> IF x = k THEN v ELSE d[x]]
None == [ok |-> FALSE, val |-> <<>>]
Some(v) == [ok |-> TRUE, val |-> v]

\* --------------------------------------------------------- the file system
\* The keys of a chain of nested wildcard files: the file of each key holds
\* one line that references the next key, the file of the last key holds a
\* plain text.
ChainKeys ==
  << "c1", "c2", "c3", "c4", "c5", "c6", "c7", "c8", "c9", "c10",
     "c11", "c12", "c13", "c14", "c15", "c16", "c17", "c18", "c19", "c20",
     "c21", "c22", "c23", "c24", "c25", "c26", "c27", "c28", "c29", "c30",
     "c31", "c32", "c33", "c34", "c35", "c36", "c37", "c38", "c39", "c40",
     "c41", "c42", "c43", "c44", "c45", "c46", "c47", "c48", "c49", "c50",
     "c51", "c52", "c53", "c54", "c55", "c56", "c57", "c58", "c59", "c60",
     "c61", "c62", "c63", "c64", "c65", "c66", "c67", "c68", "c69", "c70",
     "c71", "c72", "c73", "c74", "c75", "c76", "c77", "c78", "c79", "c80",
     "c81", "c82", "c83", "c84", "c85", "c86", "c87", "c88", "c89", "c90",
     "c91", "c92", "c93", "c94", "c95", "c96", "c97", "c98", "c99", "c100" >>

ChainIndex(k) == CHOOSE i \in DOMAIN ChainKeys : ChainKeys[i] = k
ChainFile(k) ==
    IF ChainIndex(k) < Len(ChainKeys)
    THEN << <<[t |-> "wc", v |-> ChainKeys[ChainIndex(k) + 1]]>> >>
    ELSE << <<[t |-> "lit", v |-> "leaf"]>> >>

\* the files of the chain directory
ChainFiles == [k \in {ChainKeys[i] : i \in DOMAIN ChainKeys} |-> ChainFile(k)]

\* the revision number of the directory that holds the chain files
ChainRev == 2

\* Directory walk order of the wildcard files.
WalkOrder == <<"a", "b", "colors/cold", "colors/warm", "dragon/fire",
               "fantasy/dragon", "flower">> \o ChainKeys

\* Lines of the .txt files of each disk revision.
TxtFiles(rev) ==
    IF rev = ChainRev
    THEN ChainFiles
    ELSE IF rev /= 1
    THEN [k \in {"a", "b", "dragon/fire", "fantasy/dragon", "flower"} |->
            CASE k = "a" -> << <<Wc("B")>> >>
              [] k = "b" -> << <<Wc("A")>> >>
              [] k = "dragon/fire" -> << <<Lit("red")>>, <<Hash, Lit("note")>>, <<Lit("flame")>> >>
              [] k = "fantasy/dragon" -> << <<Lit("red")>>, <<>>, <<Lit("blue")>> >>
              [] OTHER -> << <<Lit("rose")>>, <<Lit("tulip")>> >>]
    ELSE [k \in {"a", "b", "dragon/fire", "fantasy/dragon", "flower"} |->
            CASE k = "a" -> << <<Wc("B")>> >>
              [] k = "b" -> << <<Wc("A")>> >>
              [] k = "dragon/fire" -> << <<Lit("red")>>, <<Hash, Lit("note")>>, <<Lit("flame")>> >>
              [] k = "fantasy/dragon" -> << <<Lit("red")>>, <<>>, <<Lit("green")>> >>
              [] OTHER -> << <<Lit("iris")>> >>]

\* Leaf lists of the .yaml files (the same in every revision).
YamlFiles(rev) ==
    [k \in {"colors/warm", "colors/cold"} |->
        IF k = "colors/warm" THEN << <<Lit("red")>>, <<Lit("orange")>> >>
                             ELSE << <<Lit("blue")>> >>]

\* Revision 1 has edited contents and two files that cannot be read
\* (permissions).
Revisions == {0, 1}
Unreadable(rev) == IF rev = 1 THEN {"dragon/fire", "flower"} ELSE {}

\* [x for x in lines if x.strip() and not x.strip().startswith('#')]
RECURSIVE FilterLines(_)
FilterLines(lines) ==
    IF lines = <<>> THEN <<>>
    ELSE LET x == Head(lines)
             rest == FilterLines(Tail(lines))
         IN  IF x = <<>> \/ x[1] = Hash THEN rest ELSE <<x>> \o rest

\* None when the file cannot be opened or read
load_txt_wildcard(rev, file_path) ==
    IF file_path \in DOMAIN TxtFiles(rev) /\ file_path \notin Unreadable(rev)
    THEN Some(FilterLines(TxtFiles(rev)[file_path]))
    ELSE None

\* file size in size units: one unit per line
RECURSIVE SumSizes(_, _)
SumSizes(f, S) ==
    IF S = {} THEN 0
    ELSE LET k == CHOOSE x \in S : TRUE
         IN  Len(f[k]) + SumSizes(f, S \ {k})

\* the size of the whole wildcard directory
TotalSize(rev) ==
    SumSizes(TxtFiles(rev), DOMAIN TxtFiles(rev))
    + SumSizes(YamlFiles(rev), DOMAIN YamlFiles(rev))

FileSize(rev, k) ==
    IF k \in DOMAIN TxtFiles(rev) THEN Len(TxtFiles(rev)[k])
    ELSE IF k \in DOMAIN YamlFiles(rev) THEN Len(YamlFiles(rev)[k])
    ELSE 0

\* for file in walk(directory): size += file_size, with early termination
\* once size >= cache_limit
RECURSIVE WalkSize(_, _, _, _)
WalkSize(rev, order, size, limit) ==
    IF order = <<>> THEN size
    ELSE IF size + FileSize(rev, Head(order)) >= limit
         THEN size + FileSize(rev, Head(order))
         ELSE WalkSize(rev, Tail(order), size + FileSize(rev, Head(order)), limit)

\* the members of S in directory walk order (also the iteration order of a
\* dict filled by a walk)
KeysInOrder(order, S) == SelectSeq(order, LAMBDA k : k \in S)

\* the files of the directory, in walk order
WalkFiles(rev) == KeysInOrder(WalkOrder, DOMAIN TxtFiles(rev) \cup DOMAIN YamlFiles(rev))

calculate_directory_size(rev, limit) == WalkSize(rev, WalkFiles(rev), 0, limit)

\* a decision that needs the size to exceed the limit
determine_loading_modeStrict(rev, limit) == calculate_directory_size(rev, limit) > limit

\* TRUE is on-demand mode, FALSE is full cache mode
determine_loading_mode(rev, limit) == calculate_directory_size(rev, limit) >= limit

\* cache limits below, at and above the size of the directory
CacheLimits == {1, 13, 150}

\* ------------------------------------------------------------ startup load
scan_wildcard_metadata(rev) == [k \in DOMAIN TxtFiles(rev) |-> k]

\* a startup that leaves the YAML documents unparsed
load_yaml_wildcardsSkipped(rev) == EmptyDict
load_yaml_wildcards(rev) == YamlFiles(rev)

\* full cache mode: every .txt and .yaml key with its data
load_wildcards(rev) ==
    [k \in (DOMAIN TxtFiles(rev) \ Unreadable(rev)) \cup DOMAIN YamlFiles(rev) |->
        IF k \in DOMAIN TxtFiles(rev) THEN load_txt_wildcard(rev, k).val
                                      ELSE YamlFiles(rev)[k]]

\* a load that goes to on-demand mode whatever the size
wildcard_loadAlwaysOnDemand(rev, limit, dict, avail, loaded) ==
    [mode |-> TRUE, dict |-> dict,
     avail |-> [k \in DOMAIN avail \cup DOMAIN scan_wildcard_metadata(rev) |->
                   IF k \in DOMAIN scan_wildcard_metadata(rev)
                   THEN scan_wildcard_metadata(rev)[k] ELSE avail[k]],
     loaded |-> [k \in DOMAIN loaded \cup DOMAIN load_yaml_wildcards(rev) |->
                   IF k \in DOMAIN load_yaml_wildcards(rev)
                   THEN load_yaml_wildcards(rev)[k] ELSE loaded[k]]]

\* the store after wildcard_load() has run on the indices dict, avail, loaded
wildcard_load(rev, limit, dict, avail, loaded) ==
    IF determine_loading_mode(rev, limit)
    THEN [mode |-> TRUE, dict |-> dict,
          avail |-> [k \in DOMAIN avail \cup DOMAIN scan_wildcard_metadata(rev) |->
                        IF k \in DOMAIN scan_wildcard_metadata(rev)
                        THEN scan_wildcard_metadata(rev)[k] ELSE avail[k]],
          loaded |-> [k \in DOMAIN loaded \cup DOMAIN load_yaml_wildcards(rev) |->
                        IF k \in DOMAIN load_yaml_wildcards(rev)
                        THEN load_yaml_wildcards(rev)[k] ELSE loaded[k]]]
    ELSE [mode |-> FALSE,
          dict |-> [k \in DOMAIN dict \cup DOMAIN load_wildcards(rev) |->
                        IF k \in DOMAIN load_wildcards(rev)
                        THEN load_wildcards(rev)[k] ELSE dict[k]],
          avail |-> avail, loaded |-> loaded]

\* ------------------------------------------------------ get_wildcard_value
find_wildcard_file(avail, key) ==
    IF key \in DOMAIN avail THEN Some(avail[key]) ELSE None

\* full cache mode: the key's entry in wildcard_dict
EagerLookup(dict, key) == IF key \in DOMAIN dict THEN Some(dict[key]) ELSE None

\* full cache mode: the keys the fallback scans are those of wildcard_dict
EagerKeys(dict) == DOMAIN dict

\* a lookup that goes to the file of an available key before the loaded index
GwvExactFileFirst(mode, dict, avail, loaded, rev, key) ==
    IF mode /\ find_wildcard_file(avail, key).ok
    THEN LET d == load_txt_wildcard(rev, find_wildcard_file(avail, key).val)
         IN  [res |-> d,
              loaded |-> IF d.ok THEN Put(loaded, key, d.val) ELSE loaded,
              phase |-> 2]
    ELSE IF key \in DOMAIN loaded
    THEN [res |-> Some(loaded[key]), loaded |-> loaded, phase |-> 1]
    ELSE IF ~mode /\ EagerLookup(dict, key).ok
    THEN [res |-> EagerLookup(dict, key), loaded |-> loaded, phase |-> 1]
    ELSE [res |-> None, loaded |-> loaded, phase |-> 0]

\* a lookup whose cache keeps one entry: a hit drops the other entries
GwvExactHitEvicts(mode, dict, avail, loaded, rev, key) ==
    IF key \in DOMAIN loaded
    THEN [res |-> Some(loaded[key]), loaded |-> PutEvicting(loaded, key, loaded[key]),
          phase |-> 1]
    ELSE IF ~mode /\ EagerLookup(dict, key).ok
    THEN [res |-> EagerLookup(dict, key), loaded |-> loaded, phase |-> 1]
    ELSE IF mode /\ find_wildcard_file(avail, key).ok
    THEN LET d == load_txt_wildcard(rev, find_wildcard_file(avail, key).val)
         IN  [res |-> d,
              loaded |-> IF d.ok THEN Put(loaded, key, d.val) ELSE loaded,
              phase |-> 2]
    ELSE [res |-> None, loaded |-> loaded, phase |-> 0]

\* Phase 1 (direct lookup) and Phase 2 (file discovery, load and cache);
\* phase 0 means neither applies.
GwvExact(mode, dict, avail, loaded, rev, key) ==
    IF key \in DOMAIN loaded
    THEN [res |-> Some(loaded[key]), loaded |-> loaded, phase |-> 1]
    ELSE IF ~mode /\ EagerLookup(dict, key).ok
    THEN [res |-> EagerLookup(dict, key), loaded |-> loaded, phase |-> 1]
    ELSE IF mode /\ find_wildcard_file(avail, key).ok
    THEN LET d == load_txt_wildcard(rev, find_wildcard_file(avail, key).val)
         IN  [res |-> d,
              loaded |-> IF d.ok THEN Put(loaded, key, d.val) ELSE loaded,
              phase |-> 2]
    ELSE [res |-> None, loaded |-> loaded, phase |-> 0]

\* the keys the fallback scans, in iteration order
ScanKeys(mode, dict, avail) ==
    KeysInOrder(WalkOrder, IF mode THEN DOMAIN avail ELSE EagerKeys(dict))

\* [k for k in keys if matches_depth_agnostic(k, key)]
MatchedKeys(keys, key) == SelectSeq(keys, LAMBDA k : matches_depth_agnostic(k, key))

\* all_options.extend(get_wildcard_value(mk)) for mk in matched_keys;
\* extending by None raises TypeError
RECURSIVE CombineMatched(_, _, _, _, _, _, _)
CombineMatched(mode, dict, avail, loaded, rev, mks, all_options) ==
    IF mks = <<>> THEN [val |-> all_options, loaded |-> loaded, raised |-> FALSE]
    ELSE LET r == GwvExact(mode, dict, avail, loaded, rev, Head(mks))
         IN  IF ~r.res.ok
             THEN [val |-> all_options, loaded |-> r.loaded, raised |-> TRUE]
             ELSE CombineMatched(mode, dict, avail, r.loaded, rev, Tail(mks),
                                 all_options \o r.res.val)

\* a fallback that returns the combined pool without caching it
GwvFallbackNoCache(mode, dict, avail, loaded, rev, key) ==
    LET matched_keys == MatchedKeys(ScanKeys(mode, dict, avail), key)
        c == CombineMatched(mode, dict, avail, loaded, rev, matched_keys, <<>>)
    IN  IF matched_keys = <<>>
        THEN [res |-> None, loaded |-> loaded, phase |-> 0, raised |-> FALSE]
        ELSE IF c.raised
        THEN [res |-> None, loaded |-> c.loaded, phase |-> 3, raised |-> TRUE]
        ELSE [res |-> Some(c.val), loaded |-> c.loaded, phase |-> 3, raised |-> FALSE]

\* Phase 3: depth-agnostic fallback, caching the combined pool under key
GwvFallback(mode, dict, avail, loaded, rev, key) ==
    LET matched_keys == MatchedKeys(ScanKeys(mode, dict, avail), key)
        c == CombineMatched(mode, dict, avail, loaded, rev, matched_keys, <<>>)
    IN  IF matched_keys = <<>>
        THEN [res |-> None, loaded |-> loaded, phase |-> 0, raised |-> FALSE]
        ELSE IF c.raised
        THEN [res |-> None, loaded |-> c.loaded, phase |-> 3, raised |-> TRUE]
        ELSE [res |-> Some(c.val), loaded |-> Put(c.loaded, key, c.val),
              phase |-> 3, raised |-> FALSE]

get_wildcard_value(mode, dict, avail, loaded, rev, key) ==
    LET e == GwvExact(mode, dict, avail, loaded, rev, key)
    IN  IF e.phase /= 0 THEN [res |-> e.res, loaded |-> e.loaded, phase |-> e.phase,
                              raised |-> FALSE]
        ELSE GwvFallback(mode, dict, avail, loaded, rev, key)

\* ----------------------------------------------------------- list endpoints
\* a list that also names the keys of the loaded index
get_wildcard_listWithLoaded(mode, dict, avail, loaded) ==
    LET ks == KeysInOrder(WalkOrder \o <<"dragon", "warm", "cold">>,
                          IF mode THEN DOMAIN avail \cup DOMAIN loaded
                                  ELSE DOMAIN dict \cup DOMAIN loaded)
    IN  [i \in DOMAIN ks |-> Wc(ks[i])]

\* GET /impact/wildcards/list: the known keys as __key__, those of the
\* availability metadata in on-demand mode and those of wildcard_dict in
\* full cache mode
get_wildcard_list(mode, dict, avail, loaded) ==
    LET ks == KeysInOrder(WalkOrder, IF mode THEN DOMAIN avail ELSE DOMAIN dict)
    IN  [i \in DOMAIN ks |-> Wc(ks[i])]

\* GET /impact/wildcards/list/loaded
get_loaded_wildcards(mode, dict, avail, loaded) ==
    IF mode
    THEN [data |-> {Wc(k) : k \in DOMAIN loaded},
          on_demand_mode |-> TRUE,
          total_available |-> Cardinality(DOMAIN avail)]
    ELSE [data |-> {Wc(k) : k \in DOMAIN dict},
          on_demand_mode |-> FALSE,
          total_available |-> Cardinality(DOMAIN dict)]

\* ------------------------------------------------------------ random source
Seeds == {1, 2}
NoSeed == 0 - 1
\* a generator that is never seeded
SeedStatesUnseeded(seed) == 0..(RngMod - 1)
SeedStates(seed) == IF seed = NoSeed THEN 0..(RngMod - 1) ELSE {seed % RngMod}
NextRng(r) == (r * 5 + 1) % RngMod
Pick(r, n) == (r % n) + 1

\* ---------------------------------------------------- process_comment_out
\* the lines of a text, split at the newline tokens
RECURSIVE SplitLines(_, _)
SplitLines(txt, line) ==
    IF txt = <<>> THEN <<line>>
    ELSE IF Head(txt) = NL THEN <<line>> \o SplitLines(Tail(txt), <<>>)
         ELSE SplitLines(Tail(txt), Append(line, Head(txt)))

RECURSIVE JoinLines(_)
JoinLines(lines) ==
    IF lines = <<>> THEN <<>>
    ELSE IF Len(lines) = 1 THEN lines[1]
         ELSE lines[1] \o <<NL>> \o JoinLines(Tail(lines))

\* a stripper that joins the line after a comment to the line before it
\* with nothing in between
RECURSIVE StripCommentsNoSpace(_, _, _)
StripCommentsNoSpace(lines, lines0, flag) ==
    IF lines = <<>> THEN lines0
    ELSE LET line == Head(lines)
         IN  IF line /= <<>> /\ line[1] = Hash
             THEN StripCommentsNoSpace(Tail(lines), lines0, TRUE)
             ELSE IF lines0 = <<>>
             THEN StripCommentsNoSpace(Tail(lines), <<line>>, flag)
             ELSE IF flag
             THEN StripCommentsNoSpace(Tail(lines),
                     [lines0 EXCEPT ![Len(lines0)] = @ \o line], FALSE)
             ELSE StripCommentsNoSpace(Tail(lines), Append(lines0, line), flag)

\* drops the lines that start with #; the line after a dropped comment is
\* joined to the line before it by one space
RECURSIVE StripComments(_, _, _)
StripComments(lines, lines0, flag) ==
    IF lines = <<>> THEN lines0
    ELSE LET line == Head(lines)
         IN  IF line /= <<>> /\ line[1] = Hash
             THEN StripComments(Tail(lines), lines0, TRUE)
             ELSE IF lines0 = <<>>
             THEN StripComments(Tail(lines), <<line>>, flag)
             ELSE IF flag
             THEN StripComments(Tail(lines),
                     [lines0 EXCEPT ![Len(lines0)] = @ \o <<Sp>> \o line], FALSE)
             ELSE StripComments(Tail(lines), Append(lines0, line), flag)

process_comment_out(txt) == JoinLines(StripComments(SplitLines(txt, <<>>), <<>>, FALSE))

\* --------------------------------------------------------- replace_options
\* index of the first brace token of txt after position 1, or 0
RECURSIVE NextBrace(_, _)
NextBrace(txt, i) ==
    IF i > Len(txt) THEN 0
    ELSE IF txt[i] = Open \/ txt[i] = Close THEN i
         ELSE NextBrace(txt, i + 1)

\* the |-separated segments of the inside of a block
RECURSIVE SplitBars(_, _)
SplitBars(txt, seg) ==
    IF txt = <<>> THEN <<seg>>
    ELSE IF Head(txt) = Bar THEN <<seg>> \o SplitBars(Tail(txt), <<>>)
         ELSE SplitBars(Tail(txt), Append(seg, Head(txt)))

\* index of the first token tok of txt at or after position i, or 0
IndexOf(txt, tok, i) ==
    IF \E j \in i..Len(txt) : txt[j] = tok
    THEN CHOOSE j \in i..Len(txt) :
            txt[j] = tok /\ \A m \in i..(j - 1) : txt[m] /= tok
    ELSE 0

\* the number a count token stands for
ParseCount(tok) == CHOOSE n \in DOMAIN Digits : Digits[n] = tok.v

\* the range of counts of a multi-select prefix: n, n1-n2 or -n
CountRange(pre) ==
    IF Len(pre) = 1 /\ pre[1].t = "num"
    THEN [ok |-> TRUE, lo |-> ParseCount(pre[1]), hi |-> ParseCount(pre[1])]
    ELSE IF Len(pre) = 3 /\ pre[1].t = "num" /\ pre[2] = Dash /\ pre[3].t = "num"
    THEN [ok |-> ParseCount(pre[1]) <= ParseCount(pre[3]),
          lo |-> ParseCount(pre[1]), hi |-> ParseCount(pre[3])]
    ELSE IF Len(pre) = 2 /\ pre[1] = Dash /\ pre[2].t = "num"
    THEN [ok |-> TRUE, lo |-> 1, hi |-> ParseCount(pre[2])]
    ELSE [ok |-> FALSE, lo |-> 0, hi |-> 0]

\* the separator of a multi-select block that names none
DefaultSep == <<Lit(","), Sp>>

\* the inside of a block read as count$$options or count$$sep$$options
MultiSelect(inner) ==
    LET d1 == IndexOf(inner, DD, 1)
        d2 == IF d1 = 0 THEN 0 ELSE IndexOf(inner, DD, d1 + 1)
        bar == IF d1 = 0 THEN 0 ELSE IndexOf(inner, Bar, d1 + 1)
        c == IF d1 = 0 THEN [ok |-> FALSE, lo |-> 0, hi |-> 0]
             ELSE CountRange(SubSeq(inner, 1, d1 - 1))
    IN  IF ~c.ok
        THEN [multi |-> FALSE, lo |-> 0, hi |-> 0, sep |-> <<>>, body |-> inner]
        ELSE IF d2 /= 0 /\ (bar = 0 \/ d2 < bar)
        THEN [multi |-> TRUE, lo |-> c.lo, hi |-> c.hi,
              sep |-> SubSeq(inner, d1 + 1, d2 - 1),
              body |-> SubSeq(inner, d2 + 1, Len(inner))]
        ELSE [multi |-> TRUE, lo |-> c.lo, hi |-> c.hi,
              sep |-> DefaultSep,
              body |-> SubSeq(inner, d1 + 1, Len(inner))]

\* a count that is passed on as requested
ClampCountNone(count, k) == count

\* a count larger than the number of options becomes that number
ClampCount(count, k) == IF count > k THEN k ELSE count

RemoveAt(seq, i) == SubSeq(seq, 1, i - 1) \o SubSeq(seq, i + 1, Len(seq))

\* a selection that draws every item from the whole list
RECURSIVE TakeWithReplacement(_, _, _, _)
TakeWithReplacement(rem, count, r, acc) ==
    IF count = 0 THEN [items |-> acc, rng |-> r, raised |-> FALSE]
    ELSE IF rem = <<>> THEN [items |-> acc, rng |-> r, raised |-> TRUE]
    ELSE TakeWithReplacement(rem, count - 1, NextRng(r),
                             Append(acc, rem[Pick(r, Len(rem))]))

\* count draws without replacement: each draw takes one of the options
\* that are left; asking for more than are left raises
RECURSIVE TakeDistinct(_, _, _, _)
TakeDistinct(rem, count, r, acc) ==
    IF count = 0 THEN [items |-> acc, rng |-> r, raised |-> FALSE]
    ELSE IF rem = <<>> THEN [items |-> acc, rng |-> r, raised |-> TRUE]
    ELSE TakeDistinct(RemoveAt(rem, Pick(r, Len(rem))), count - 1, NextRng(r),
                      Append(acc, rem[Pick(r, Len(rem))]))

RECURSIVE JoinWith(_, _)
JoinWith(items, sep) ==
    IF items = <<>> THEN <<>>
    ELSE IF Len(items) = 1 THEN items[1]
         ELSE items[1] \o sep \o JoinWith(Tail(items), sep)

\* the expansion of a multi-select block: the count is the requested one, or
\* drawn from the requested range, and never more than the options
SelectMulti(m, r) ==
    LET options == SplitBars(m.body, <<>>)
        lo == ClampCount(m.lo, Len(options))
        hi == ClampCount(m.hi, Len(options))
        count == IF lo = hi THEN lo ELSE lo + (r % (hi - lo + 1))
        r1 == IF lo = hi THEN r ELSE NextRng(r)
        t == TakeDistinct(options, count, r1, <<>>)
    IN  [text |-> JoinWith(t.items, m.sep), rng |-> t.rng, raised |-> t.raised]

\* an option of the form weight::text
IsWeighted(seg) == Len(seg) >= 2 /\ seg[1].t = "num" /\ seg[2] = CC

\* a parse that reads a weight on either side of the ::
SegWeightEitherSide(seg) ==
    IF IsWeighted(seg) THEN ParseCount(seg[1])
    ELSE IF Len(seg) >= 2 /\ seg[Len(seg)].t = "num" /\ seg[Len(seg) - 1] = CC
    THEN ParseCount(seg[Len(seg)])
    ELSE 1

\* the weight of an option: the number before ::, or 1
SegWeight(seg) == IF IsWeighted(seg) THEN ParseCount(seg[1]) ELSE 1

\* the text of an option: what follows weight::, or the whole option
SegText(seg) == IF IsWeighted(seg) THEN SubSeq(seg, 3, Len(seg)) ELSE seg

Weights(options) == [i \in DOMAIN options |-> SegWeight(options[i])]

\* the sum of the first i weights
RECURSIVE CumWeight(_, _)
CumWeight(weights, i) ==
    IF i = 0 THEN 0 ELSE weights[i] + CumWeight(weights, i - 1)

\* a choice that gives every option the same share of the variates
WeightedIndexUniform(weights, u) == (u % Len(weights)) + 1

\* random.choice(options, p = weights / sum(weights)) for the variate u of
\* 0 .. sum(weights) - 1: the option whose share of the variates holds u
WeightedIndex(weights, u) ==
    CHOOSE i \in DOMAIN weights :
        CumWeight(weights, i - 1) <= u /\ u < CumWeight(weights, i)

\* the option of the inside of a block that the variate u selects
ChooseOption(inner, u) ==
    LET options == SplitBars(inner, <<>>)
    IN  SegText(options[WeightedIndex(Weights(options), u)])

\* the number of variates of the inside of a block
TotalWeight(inner) ==
    CumWeight(Weights(SplitBars(inner, <<>>)), Len(SplitBars(inner, <<>>)))

\* the expansion of the inside of one block
ExpandBlock(inner, r) ==
    IF MultiSelect(inner).multi
    THEN SelectMulti(MultiSelect(inner), r)
    ELSE [text |-> ChooseOption(inner, r % TotalWeight(inner)),
          rng |-> NextRng(r), raised |-> FALSE]

\* a pass that drops an opening brace that has no closing one
RECURSIVE ReplaceBlocksDropOpen(_, _, _)
ReplaceBlocksDropOpen(rest, acc, r) ==
    IF rest = <<>> THEN [text |-> acc, rng |-> r, raised |-> FALSE]
    ELSE IF Head(rest) = Open
    THEN LET j == NextBrace(rest, 2)
         IN  IF j /= 0 /\ rest[j] = Close
             THEN LET e == ExpandBlock(SubSeq(rest, 2, j - 1), r)
                  IN  IF e.raised
                      THEN [text |-> acc, rng |-> e.rng, raised |-> TRUE]
                      ELSE ReplaceBlocksDropOpen(SubSeq(rest, j + 1, Len(rest)),
                                                 acc \o e.text, e.rng)
             ELSE ReplaceBlocksDropOpen(Tail(rest), acc, r)
    ELSE ReplaceBlocksDropOpen(Tail(rest), Append(acc, Head(rest)), r)

\* one pass over the text: every innermost {...} block is replaced by its
\* expansion; an opening brace without a closing one stays as it is
RECURSIVE ReplaceBlocks(_, _, _)
ReplaceBlocks(rest, acc, r) ==
    IF rest = <<>> THEN [text |-> acc, rng |-> r, raised |-> FALSE]
    ELSE IF Head(rest) = Open
    THEN LET j == NextBrace(rest, 2)
         IN  IF j /= 0 /\ rest[j] = Close
             THEN LET e == ExpandBlock(SubSeq(rest, 2, j - 1), r)
                  IN  IF e.raised
                      THEN [text |-> acc, rng |-> e.rng, raised |-> TRUE]
                      ELSE ReplaceBlocks(SubSeq(rest, j + 1, Len(rest)),
                                         acc \o e.text, e.rng)
             ELSE ReplaceBlocks(Tail(rest), Append(acc, Head(rest)), r)
    ELSE ReplaceBlocks(Tail(rest), Append(acc, Head(rest)), r)

\* n - 1 copies of the token joined by |
RECURSIVE RepeatOneLess(_, _)
RepeatOneLess(tok, n) ==
    IF n <= 2 THEN <<tok>> ELSE <<tok, Bar>> \o RepeatOneLess(tok, n - 1)

\* n copies of the token joined by |
RECURSIVE Repeat(_, _)
Repeat(tok, n) ==
    IF n <= 1 THEN <<tok>> ELSE <<tok, Bar>> \o Repeat(tok, n - 1)

\* every N#__name__ of the text becomes N times __name__, joined by |
RECURSIVE ExpandQuantifiers(_)
ExpandQuantifiers(txt) ==
    IF txt = <<>> THEN <<>>
    ELSE IF Len(txt) >= 3 /\ txt[1].t = "num" /\ txt[2] = Hash /\ txt[3].t = "wc"
    THEN Repeat(txt[3], ParseCount(txt[1]))
            \o ExpandQuantifiers(SubSeq(txt, 4, Len(txt)))
    ELSE <<Head(txt)>> \o ExpandQuantifiers(Tail(txt))

replace_options(txt, r) == ReplaceBlocks(ExpandQuantifiers(txt), <<>>, r)

\* -------------------------------------------------------- replace_wildcard
\* index of the first wildcard token of txt at or after position i, or 0
RECURSIVE NextWc(_, _)
NextWc(txt, i) ==
    IF i > Len(txt) THEN 0
    ELSE IF txt[i].t = "wc" THEN i
         ELSE NextWc(txt, i + 1)

\* a selection without the "if options" guard: choosing from None or from
\* an empty list raises
SelectedUnguarded(tok, res, r) ==
    IF res.ok /\ res.val /= <<>>
    THEN [text |-> res.val[Pick(r, Len(res.val))], rng |-> NextRng(r), raised |-> FALSE]
    ELSE [text |-> <<>>, rng |-> r, raised |-> TRUE]

\* a replacement that drops the token of a key without options
SelectedDropsToken(tok, res, r) ==
    IF res.ok /\ res.val /= <<>>
    THEN [text |-> res.val[Pick(r, Len(res.val))], rng |-> NextRng(r), raised |-> FALSE]
    ELSE [text |-> <<>>, rng |-> r, raised |-> FALSE]

\* the replacement of a __keyword__ token given the result of
\* get_wildcard_value: "if options: random select", else the token is kept
Selected(tok, res, r) ==
    IF res.ok /\ res.val /= <<>>
    THEN [text |-> res.val[Pick(r, Len(res.val))], rng |-> NextRng(r), raised |-> FALSE]
    ELSE [text |-> <<tok>>, rng |-> r, raised |-> FALSE]

\* a loop that allows one pass less
loop_continuesOneLess(n) == n < max_iterations - 1

\* a loop that allows one pass more
loop_continuesOneMore(n) == n <= max_iterations

\* for i in range(max_iterations): the loop goes on after n passes
loop_continues(n) == n < max_iterations

\* a return that gives up the text when the pass limit was hit
ReturnValueDropAtLimit(new_text, n) == IF n >= max_iterations THEN <<>> ELSE new_text

\* return text
ReturnValue(new_text, n) == new_text

\* ------------------------------------------------------------------ inputs
\* texts with wildcard references
StoreTexts ==
    { <<Wc("Dragon")>>,
      <<Wc("flower"), Sp, Lit("x")>>,
      <<Wc("nope")>>,
      <<Wc("warm")>>,
      <<Wc("colors/warm")>>,
      <<Open, Lit("p"), Bar, Wc("FLOWER"), Close>> }

\* texts of the grammar and error-handling tests
GrammarTexts ==
    { <<Wc("A")>>,
      <<Wc("nope")>>,
      <<Open, Lit("p"), Bar, Lit("q")>>,
      <<Open, Close>>,
      <<Open, Lit("p"), Bar, Open, Lit("q"), Bar, Bar, Lit("r"), Close, Close>>,
      <<Lit("p"), NL, Hash, Lit("c"), NL, Lit("q")>> }

SeedArgs == Seeds \cup {NoSeed}

NoCur == [key |-> "", path |-> "", data |-> None, refreshed |-> "no", tok |-> Lit("")]
NoLast == [key |-> "", phase |-> 0 - 1, res |-> None]
NoMemo == [set |-> FALSE, text |-> <<>>, seed |-> NoSeed, result |-> <<>>]

\* ------------------------------------------------------ frontend nodes
RHNodes == {"rh1"}
ACNodes == {"ac1"}
\* trimmed values of the api_key and webapp_id widgets of a RunningHub node
RHApiKeys == {"", "key", "key2"}
WebappIds == {"", "app"}
\* trimmed values of the api_key widget of an API Core node
ACApiKeys == {"", "sk-xxxx", "sk-1"}
\* calls of one node that may wait for the network at once
MaxInFlight == 3

\* no dynamic widgets on the node
NoWidgets == <<>>

\* delays of the setTimeout calls, in milliseconds, and the value of a timer
\* that is not pending; a pending timer holds the time left until it fires
RHDelayMs == 800
ACDelayMs == 400
InitDelayMs == 100
NoTimer == 0 - 1

\* a RunningHub API node after nodeCreated; fetches holds the (apiKey,
\* webappId) arguments of the fetchNodeInfoList calls that have not returned,
\* widgets the arguments the dynamic widgets were fetched for, returned is
\* how the last refreshNodeInfo call came back, failed whether some fetch
\* gave no list; since is the time since the last widget change, calls the
\* number of refreshes the timer started since the current burst of changes
\* began, mid_burst whether a change of a burst followed such a refresh
NewRHNode ==
    [api_key |-> "", webapp_id |-> "", _lastApiKey |-> "", _lastWebappId |-> "",
     _smartRefreshTimeout |-> NoTimer, _refreshing |-> FALSE,
     _nodeInfoInitialized |-> FALSE, widgets |-> NoWidgets, fetches |-> <<>>,
     returned |-> "none", failed |-> FALSE,
     since |-> RHDelayMs, calls |-> 0, mid_burst |-> FALSE, burst |-> FALSE]

\* an API Core node after initializeModelSelector: default options, the
\* 100 ms timer pending; fetching, reading_ok and reading_err count the calls
\* waiting for fetch, for response.json() and for response.text()
NewACNode ==
    [api_key |-> "sk-xxxx", __apicoreModelDebounce |-> NoTimer,
     init_timer |-> InitDelayMs,
     __apicoreModelLoading |-> FALSE, values |-> "default", fetching |-> 0,
     reading_ok |-> 0, reading_err |-> 0, returned |-> "none",
     since |-> ACDelayMs, calls |-> 0, mid_burst |-> FALSE, burst |-> FALSE]

NewNodes == [n \in RHNodes \cup ACNodes |-> IF n \in RHNodes THEN NewRHNode ELSE NewACNode]

\* no node is being edited
NoGraph == [kind |-> "none"]

\* -------------------------------------------------------------------- Init
\* the state after startup on the directory of revision rev
StartOn(rev) ==
    /\ disk = rev
    /\ edits = 0
    /\ cache_limit \in CacheLimits
    /\ LET wl == wildcard_load(disk, cache_limit, EmptyDict, EmptyDict, EmptyDict)
       IN  /\ on_demand_mode = wl.mode
           /\ wildcard_dict = wl.dict
           /\ available_wildcards = wl.avail
           /\ loaded_wildcards = wl.loaded
    /\ wildcard_lock = "free"
    /\ rpc = "idle"
    /\ pc = "idle"
    /\ in_text = <<>>
    /\ in_seed = NoSeed
    /\ text = <<>>
    /\ work = <<>>
    /\ out = <<>>
    /\ pos = 1
    /\ rng = 0
    /\ iter = 0
    /\ cur = NoCur
    /\ saw_partial = FALSE
    /\ stale_insert = FALSE
    /\ clean = TRUE
    /\ ret = <<>>
    /\ last = NoLast
    /\ memo = NoMemo
    /\ nodes = NewNodes

Init == StartOn(0) /\ graph = NoGraph

\* ------------------------------------------------------------- environment
\* the user edits the wildcard files on disk
EditFiles ==
    /\ edits < MaxEdits
    /\ disk' \in Revisions \ {disk}
    /\ edits' = edits + 1
    /\ clean' = FALSE
    /\ memo' = NoMemo
    /\ UNCHANGED <<nodes, graph, cache_limit, store_vars, refresh_vars, pc, call_vars, cur,
                   saw_partial, stale_insert, ret, last>>

\* ----------------------------------------------------------------- refresh
RefreshAcquire ==
    /\ rpc = "idle"
    /\ wildcard_lock = "free"
    /\ wildcard_lock' = "refresh"
    /\ rpc' = "locked"
    /\ UNCHANGED <<nodes, graph, env_vars, store_vars, pc, call_vars, cur, saw_partial,
                   stale_insert, clean, ret, last, memo>>

\* a refresh that clears the full cache and the metadata but keeps
\* loaded_wildcards
RefreshClearKeepsLoaded ==
    /\ rpc = "locked"
    /\ wildcard_dict' = EmptyDict
    /\ loaded_wildcards' = loaded_wildcards
    /\ available_wildcards' = EmptyDict
    /\ rpc' = "cleared"
    /\ cur' = IF pc \in {"load", "store"} THEN [cur EXCEPT !.refreshed = "cleared"] ELSE cur
    /\ clean' = FALSE
    /\ memo' = NoMemo
    /\ UNCHANGED <<nodes, graph, env_vars, on_demand_mode, wildcard_lock, pc, call_vars,
                   saw_partial, stale_insert, ret, last>>

RefreshClear ==
    /\ rpc = "locked"
    /\ wildcard_dict' = EmptyDict
    /\ loaded_wildcards' = EmptyDict
    /\ available_wildcards' = EmptyDict
    /\ rpc' = "cleared"
    /\ cur' = IF pc \in {"load", "store"} THEN [cur EXCEPT !.refreshed = "cleared"] ELSE cur
    /\ clean' = FALSE
    /\ memo' = NoMemo
    /\ UNCHANGED <<nodes, graph, env_vars, on_demand_mode, wildcard_lock, pc, call_vars,
                   saw_partial, stale_insert, ret, last>>

RefreshLoad ==
    /\ rpc = "cleared"
    /\ LET wl == wildcard_load(disk, cache_limit, wildcard_dict,
                               available_wildcards, loaded_wildcards)
       IN  /\ on_demand_mode' = wl.mode
           /\ wildcard_dict' = wl.dict
           /\ available_wildcards' = wl.avail
           /\ loaded_wildcards' = wl.loaded
    /\ wildcard_lock' = "free"
    /\ rpc' = "idle"
    /\ cur' = IF cur.refreshed = "cleared" THEN [cur EXCEPT !.refreshed = "rebuilt"] ELSE cur
    /\ clean' = FALSE
    /\ memo' = NoMemo
    /\ UNCHANGED <<nodes, graph, env_vars, pc, call_vars, saw_partial, stale_insert, ret, last>>


\* ---------------------------------------------------- frontend handlers
\* refreshNodeInfo without the _refreshing test
refreshNodeInfoNoGuard(nd) ==
    IF nd.api_key = "" \/ nd.webapp_id = ""
    THEN [nd EXCEPT !.returned = "no_key"]
    ELSE [nd EXCEPT !._refreshing = TRUE,
                    !.fetches = Append(@, <<nd.api_key, nd.webapp_id>>),
                    !.returned = "started"]

\* refreshNodeInfo up to its await
refreshNodeInfo(nd) ==
    IF nd.api_key = "" \/ nd.webapp_id = ""
    THEN [nd EXCEPT !.returned = "no_key"]
    ELSE IF nd._refreshing
    THEN [nd EXCEPT !.returned = "busy"]
    ELSE [nd EXCEPT !._refreshing = TRUE,
                    !.fetches = Append(@, <<nd.api_key, nd.webapp_id>>),
                    !.returned = "started"]

\* refreshNodeInfo whose flag is cleared at the end of the try block only
refreshNodeInfoResumeNoFinally(nd, i, outcome) ==
    IF outcome = "list"
    THEN [nd EXCEPT !.widgets = nd.fetches[i], !._nodeInfoInitialized = TRUE,
                    !._refreshing = FALSE, !.fetches = RemoveAt(@, i)]
    ELSE [nd EXCEPT !.failed = TRUE, !.fetches = RemoveAt(@, i)]

\* refreshNodeInfo after its await: outcome is what the i-th fetchNodeInfoList
\* call in flight gave
refreshNodeInfoResume(nd, i, outcome) ==
    LET body == IF outcome = "list"
                THEN [nd EXCEPT !.widgets = nd.fetches[i], !._nodeInfoInitialized = TRUE]
                ELSE [nd EXCEPT !.failed = TRUE]
    IN  [body EXCEPT !._refreshing = FALSE, !.fetches = RemoveAt(@, i)]

\* the callback of the api_key and webapp_id widgets
smartRefresh(nd) ==
    IF nd.api_key # "" /\ nd.webapp_id # ""
    THEN IF nd.api_key # nd._lastApiKey \/ nd.webapp_id # nd._lastWebappId
         THEN [nd EXCEPT !._lastApiKey = nd.api_key, !._lastWebappId = nd.webapp_id,
                         !._smartRefreshTimeout = RHDelayMs]
         ELSE nd
    ELSE [nd EXCEPT !.widgets = NoWidgets, !._nodeInfoInitialized = FALSE,
                    !._lastApiKey = "", !._lastWebappId = ""]

\* scheduleModelRefresh: the pending timer is replaced
scheduleModelRefresh(nd) == [nd EXCEPT !.__apicoreModelDebounce = ACDelayMs]

\* refreshModelList up to its first await
refreshModelList(nd) ==
    IF nd.api_key \in {"", "sk-xxxx"}
    THEN [nd EXCEPT !.values = "need_key", !.returned = "no_key"]
    ELSE IF nd.__apicoreModelLoading
    THEN [nd EXCEPT !.returned = "busy"]
    ELSE [nd EXCEPT !.__apicoreModelLoading = TRUE, !.values = "loading",
                    !.fetching = @ + 1, !.returned = "started"]

\* the catch and finally blocks of refreshModelList
refreshModelListCatch(nd) ==
    [nd EXCEPT !.values = IF nd.api_key \in {"", "sk-xxxx"} THEN "need_key" ELSE "failed",
               !.__apicoreModelLoading = FALSE]

\* refreshModelList after response.json(): payload is "ids", "empty" or "throws"
refreshModelListResume(nd, payload) ==
    IF payload = "throws"
    THEN refreshModelListCatch(nd)
    ELSE [nd EXCEPT !.values = IF payload = "ids" THEN "ids" ELSE "none",
                    !.__apicoreModelLoading = FALSE]

\* the user edits a widget of a RunningHub node; its callback runs
RHEditWidget ==
    \E n \in RHNodes, k \in RHApiKeys, w \in WebappIds :
        /\ (k # nodes[n].api_key) # (w # nodes[n].webapp_id)
        /\ nodes' = [nodes EXCEPT ![n] =
                        smartRefresh([@ EXCEPT !.api_key = k, !.webapp_id = w])]
        /\ UNCHANGED <<backend_vars, graph>>

\* the 800 ms timer of smartRefresh fires
RHTimerFires ==
    \E n \in RHNodes :
        /\ nodes[n]._smartRefreshTimeout # NoTimer
        /\ Len(nodes[n].fetches) < MaxInFlight
        /\ nodes' = [nodes EXCEPT ![n] =
                        refreshNodeInfo([@ EXCEPT !._smartRefreshTimeout = NoTimer])]
        /\ UNCHANGED <<backend_vars, graph>>

\* fetchNodeInfoList returns a list, an empty list, or throws
RHFetchReturns ==
    \E n \in RHNodes, outcome \in {"list", "empty", "error"} :
        /\ \E i \in DOMAIN nodes[n].fetches :
                nodes' = [nodes EXCEPT ![n] = refreshNodeInfoResume(@, i, outcome)]
        /\ UNCHANGED <<backend_vars, graph>>

\* the user edits the api_key widget of an API Core node; scheduleModelRefresh
ACEditKey ==
    \E n \in ACNodes, k \in ACApiKeys :
        /\ k # nodes[n].api_key
        /\ nodes' = [nodes EXCEPT ![n] =
                        scheduleModelRefresh([@ EXCEPT !.api_key = k])]
        /\ UNCHANGED <<backend_vars, graph>>

\* the 400 ms timer of scheduleModelRefresh fires
ACDebounceFires ==
    \E n \in ACNodes :
        /\ nodes[n].__apicoreModelDebounce # NoTimer
        /\ nodes[n].fetching + nodes[n].reading_ok + nodes[n].reading_err < MaxInFlight
        /\ nodes' = [nodes EXCEPT ![n] =
                        refreshModelList([@ EXCEPT !.__apicoreModelDebounce = NoTimer])]
        /\ UNCHANGED <<backend_vars, graph>>

\* the 100 ms timer of initializeModelSelector fires
ACInitFires ==
    \E n \in ACNodes :
        /\ nodes[n].init_timer # NoTimer
        /\ nodes[n].fetching + nodes[n].reading_ok + nodes[n].reading_err < MaxInFlight
        /\ nodes' = [nodes EXCEPT ![n] = refreshModelList([@ EXCEPT !.init_timer = NoTimer])]
        /\ UNCHANGED <<backend_vars, graph>>

\* fetch settles: a response that is ok, one that is not, or a rejection
ACFetchSettles ==
    \E n \in ACNodes, r \in {"ok", "not_ok", "reject"} :
        /\ nodes[n].fetching > 0
        /\ nodes' = [nodes EXCEPT ![n] =
                        LET nd == [nodes[n] EXCEPT !.fetching = @ - 1]
                        IN  CASE r = "ok" -> [nd EXCEPT !.reading_ok = @ + 1]
                              [] r = "not_ok" -> [nd EXCEPT !.reading_err = @ + 1]
                              [] OTHER -> refreshModelListCatch(nd)]
        /\ UNCHANGED <<backend_vars, graph>>

\* response.json() settles
ACJsonSettles ==
    \E n \in ACNodes, payload \in {"ids", "empty", "throws"} :
        /\ nodes[n].reading_ok > 0
        /\ nodes' = [nodes EXCEPT ![n] =
                        refreshModelListResume([@ EXCEPT !.reading_ok = @ - 1], payload)]
        /\ UNCHANGED <<backend_vars, graph>>

\* response.text() settles and the error is thrown
ACTextSettles ==
    \E n \in ACNodes :
        /\ nodes[n].reading_err > 0
        /\ nodes' = [nodes EXCEPT ![n] =
                        refreshModelListCatch([@ EXCEPT !.reading_err = @ - 1])]
        /\ UNCHANGED <<backend_vars, graph>>

NextNodes ==
    \/ RHEditWidget
    \/ RHTimerFires
    \/ RHFetchReturns
    \/ ACEditKey
    \/ ACDebounceFires
    \/ ACInitFires
    \/ ACFetchSettles
    \/ ACJsonSettles
    \/ ACTextSettles

\* the frontend does not depend on the cache limit of the backend
InitNodes == Init /\ cache_limit = 150

SpecNodes == InitNodes /\ [][NextNodes]_vars

\* ------------------------------------------------- frontend with a clock
\* the step of the clock, in milliseconds: changes and timers are observed
\* at multiples of it, a timer fires at the first multiple not before it is due
TickMs == ACDelayMs

Min(a, b) == IF a < b THEN a ELSE b

\* the debounce delay of a node
DelayOf(n) == IF n \in RHNodes THEN RHDelayMs ELSE ACDelayMs

\* a widget change is noted: it continues the burst when it comes less than
\* the delay after the previous change, and begins a new burst otherwise
NoteChange(nd, delay) ==
    IF nd.since < delay
    THEN [nd EXCEPT !.since = 0, !.mid_burst = @ \/ nd.calls > 0]
    ELSE [nd EXCEPT !.since = 0, !.calls = 0, !.burst = TRUE]

\* a refresh started by the debounce timer is noted
NoteCall(nd) == [nd EXCEPT !.calls = Min(@ + 1, 2)]

\* a timer after TickMs more milliseconds
Elapse(t) == IF t = NoTimer THEN NoTimer ELSE IF t < TickMs THEN 0 ELSE t - TickMs

\* a node after TickMs more milliseconds
ElapseNode(n) ==
    LET nd == [nodes[n] EXCEPT !.since = Min(@ + TickMs, DelayOf(n))]
    IN  IF n \in RHNodes
        THEN [nd EXCEPT !._smartRefreshTimeout = Elapse(@)]
        ELSE [nd EXCEPT !.__apicoreModelDebounce = Elapse(@), !.init_timer = Elapse(@)]

\* some timer of the node is due
TimerDue(n) ==
    IF n \in RHNodes
    THEN nodes[n]._smartRefreshTimeout = 0
    ELSE nodes[n].__apicoreModelDebounce = 0 \/ nodes[n].init_timer = 0

\* time passes; a timer that is due fires first
Tick ==
    /\ \A n \in DOMAIN nodes : ~TimerDue(n)
    /\ nodes' = [n \in DOMAIN nodes |-> ElapseNode(n)]
    /\ UNCHANGED <<backend_vars, graph>>

\* the user edits a widget of a RunningHub node; its callback runs
TimedRHEditWidget ==
    \E n \in RHNodes, k \in RHApiKeys, w \in WebappIds :
        /\ ~TimerDue(n)
        /\ (k # nodes[n].api_key) # (w # nodes[n].webapp_id)
        /\ nodes' = [nodes EXCEPT ![n] =
                        smartRefresh(NoteChange([@ EXCEPT !.api_key = k, !.webapp_id = w],
                                                RHDelayMs))]
        /\ UNCHANGED <<backend_vars, graph>>

\* the timer of smartRefresh fires 800 ms after it was set
TimedRHTimerFires ==
    \E n \in RHNodes :
        /\ nodes[n]._smartRefreshTimeout = 0
        /\ nodes' = [nodes EXCEPT ![n] =
                        refreshNodeInfo(NoteCall([@ EXCEPT !._smartRefreshTimeout = NoTimer]))]
        /\ UNCHANGED <<backend_vars, graph>>

\* the user edits the api_key widget of an API Core node
TimedACEditKey ==
    \E n \in ACNodes, k \in ACApiKeys :
        /\ ~TimerDue(n)
        /\ k # nodes[n].api_key
        /\ nodes' = [nodes EXCEPT ![n] =
                        scheduleModelRefresh(NoteChange([@ EXCEPT !.api_key = k], ACDelayMs))]
        /\ UNCHANGED <<backend_vars, graph>>

\* the timer of scheduleModelRefresh fires 400 ms after it was set
TimedACDebounceFires ==
    \E n \in ACNodes :
        /\ nodes[n].__apicoreModelDebounce = 0
        /\ nodes' = [nodes EXCEPT ![n] =
                        refreshModelList(NoteCall([@ EXCEPT !.__apicoreModelDebounce = NoTimer]))]
        /\ UNCHANGED <<backend_vars, graph>>

\* the timer of initializeModelSelector fires 100 ms after the node was added
TimedACInitFires ==
    \E n \in ACNodes :
        /\ nodes[n].init_timer = 0
        /\ nodes' = [nodes EXCEPT ![n] = refreshModelList([@ EXCEPT !.init_timer = NoTimer])]
        /\ UNCHANGED <<backend_vars, graph>>

NextBurst ==
    \/ Tick
    \/ TimedRHEditWidget
    \/ TimedRHTimerFires
    \/ RHFetchReturns
    \/ TimedACEditKey
    \/ TimedACDebounceFires
    \/ TimedACInitFires
    \/ ACFetchSettles
    \/ ACJsonSettles
    \/ ACTextSettles

SpecBurst == InitNodes /\ [][NextBurst]_vars

\* ------------------------------------------------------- dynamic ports
\* the nodes that manage their ports: Overlay Text, Switch, API Core,
\* Inversed Switch and Jimeng Image
PortKinds == {"overlay", "switch", "apicore", "inversed", "jimeng"}
\* dynamic ports a node may hold before no further link is made
MaxPorts == 4
\* pending timers of manageImageInputs that are told apart
MaxPending == 2
\* Inversed Switch: MIN_OUTPUTS; Jimeng Image: the most image inputs
MIN_OUTPUTS == 1
MaxImages == 10

\* a port: dyn is whether its name has the dynamic prefix, link whether it
\* holds a link
Port(dyn, link) == [dyn |-> dyn, link |-> link]

Max(a, b) == IF a > b THEN a ELSE b

getDynamicInputs(inputs) == SelectSeq(inputs, LAMBDA p : p.dyn)

\* the reduce over the dynamic ports that counts the linked ones
ConnectedCount(inputs) == Len(SelectSeq(inputs, LAMBDA p : p.dyn /\ p.link))

\* one port is wanted for every linked port and no spare one
DesiredCountNoSpare(connected) == connected

\* const desiredCount = connectedCount + 1
DesiredCount(connected) == connected + 1

\* the first while loop: ports are added at the end
RECURSIVE AddPorts(_, _, _)
AddPorts(inputs, current, desired) ==
    IF current < desired
    THEN AddPorts(Append(inputs, Port(TRUE, FALSE)), current + 1, desired)
    ELSE inputs

\* a second while loop that does not look at the link of the last port
RECURSIVE RemoveSurplusLinked(_, _, _, _)
RemoveSurplusLinked(inputs, current, desired, floor) ==
    IF current > desired /\ current > floor /\ inputs # <<>> /\ inputs[Len(inputs)].dyn
    THEN RemoveSurplusLinked(SubSeq(inputs, 1, Len(inputs) - 1), current - 1, desired, floor)
    ELSE inputs

\* the second while loop: surplus ports are removed from the end while the
\* last port is a dynamic one without a link; floor is the count at which
\* the loop of Jimeng Image stops
RECURSIVE RemoveSurplus(_, _, _, _)
RemoveSurplus(inputs, current, desired, floor) ==
    IF /\ current > desired /\ current > floor /\ inputs # <<>>
       /\ inputs[Len(inputs)].dyn /\ ~inputs[Len(inputs)].link
    THEN RemoveSurplus(SubSeq(inputs, 1, Len(inputs) - 1), current - 1, desired, floor)
    ELSE inputs

\* the safeguard: at least one dynamic port exists
Safeguard(inputs) ==
    IF getDynamicInputs(inputs) = <<>> THEN Append(inputs, Port(TRUE, FALSE)) ELSE inputs

\* manageInputs of Overlay Text, Switch and API Core without the widget part
manageInputs(inputs) ==
    LET current == Len(getDynamicInputs(inputs))
        desired == DesiredCount(ConnectedCount(inputs))
        added == AddPorts(inputs, current, desired)
    IN  Safeguard(RemoveSurplus(added, Max(current, desired), desired, 0))

\* manageOutputs of Inversed Switch; every output is a dynamic port
manageOutputs(outputs) ==
    LET current == Len(outputs)
        desired == Max(MIN_OUTPUTS, DesiredCount(ConnectedCount(outputs)))
        added == AddPorts(outputs, current, desired)
    IN  RemoveSurplus(added, Max(current, desired), desired, 0)

\* manageImageInputs of Jimeng Image
manageImageInputs(inputs) ==
    LET current == Len(getDynamicInputs(inputs))
        desired == Min(DesiredCount(ConnectedCount(inputs)), MaxImages)
        added == AddPorts(inputs, current, desired)
    IN  Safeguard(RemoveSurplus(added, Max(current, desired), desired, 1))

\* a Path widget is left as the user set it
ClampPathNone(value, count) == value

\* pathWidget.value = Math.min(pathWidget.value, pathWidget.options.max)
ClampPath(value, count) == Min(value, IF count > 0 THEN count ELSE 1)

\* a node after onNodeCreated: the ports declared by the backend and one
\* dynamic port; ports holds the inputs, and the outputs for Inversed Switch;
\* pending counts the timers of manageImageInputs, lost_link is whether a
\* port was removed together with its link
NewPortNode(kind) ==
    [kind |-> kind,
     ports |-> IF kind \in {"overlay", "apicore", "jimeng"}
               THEN <<Port(FALSE, FALSE), Port(TRUE, FALSE)>>
               ELSE <<Port(TRUE, FALSE)>>,
     input_link |-> FALSE, path |-> 1, path_max |-> 1, pending |-> 0,
     lost_link |-> FALSE]

\* the ports with the link of port i made or broken
ToggleLink(ports, i) == [ports EXCEPT ![i].link = ~@]

LinkCount(ports) == Len(SelectSeq(ports, LAMBDA p : p.link))

\* the node after its port manager ran on ports
Managed(g, ports) ==
    LET after == CASE g.kind = "inversed" -> manageOutputs(ports)
                   [] g.kind = "jimeng" -> manageImageInputs(ports)
                   [] OTHER -> manageInputs(ports)
        count == Len(getDynamicInputs(after))
    IN  [g EXCEPT !.ports = after,
                  !.lost_link = @ \/ LinkCount(after) < LinkCount(ports),
                  !.path_max = IF g.kind \in {"switch", "inversed"}
                               THEN (IF count > 0 THEN count ELSE 1) ELSE @,
                  !.path = IF g.kind \in {"switch", "inversed"}
                           THEN ClampPath(@, count) ELSE @]

\* onConnectionsChange after the link of port i was made or broken
PortLinkChanges ==
    \E i \in DOMAIN graph.ports :
        /\ graph.ports[i].link \/ Len(getDynamicInputs(graph.ports)) < MaxPorts
        /\ LET ports == ToggleLink(graph.ports, i)
           IN  graph' = IF graph.kind = "jimeng"
                        THEN [graph EXCEPT !.ports = ports,
                                           !.pending = IF ports[i].dyn
                                                       THEN Min(@ + 1, MaxPending) ELSE @]
                        ELSE Managed(graph, ports)
        /\ UNCHANGED <<backend_vars, nodes>>

\* Inversed Switch: onConnectionsChange for the port named Input
InversedInputChanges ==
    /\ graph.kind = "inversed"
    /\ graph' = [graph EXCEPT !.input_link = ~@]
    /\ UNCHANGED <<backend_vars, nodes>>

\* Jimeng Image: a 10 ms timer set by onConnectionsChange fires
ManageTimerFires ==
    /\ graph.kind = "jimeng"
    /\ graph.pending > 0
    /\ graph' = Managed([graph EXCEPT !.pending = @ - 1], graph.ports)
    /\ UNCHANGED <<backend_vars, nodes>>

\* the user sets the Path widget of a Switch or an Inversed Switch
SetPath ==
    \E v \in 1..graph.path_max :
        /\ graph.kind \in {"switch", "inversed"}
        /\ v # graph.path
        /\ graph' = [graph EXCEPT !.path = v]
        /\ UNCHANGED <<backend_vars, nodes>>

NextPorts ==
    \/ PortLinkChanges
    \/ InversedInputChanges
    \/ ManageTimerFires
    \/ SetPath

InitPorts == StartOn(0) /\ cache_limit = 150 /\ graph \in {NewPortNode(k) : k \in PortKinds}

SpecPorts == InitPorts /\ [][NextPorts]_vars

\* --------------------------------------------------------- Text Blocks
\* the Text Block nodes of the graph; all links go to one Overlay Text node
Blocks == {"tb1", "tb2"}
\* the tracked widgets in the order of node.widgets
Params == <<"font_family", "font_weight">>
\* two entries of the fallback fontWeightMap, each cut to two weights
fontWeightMap ==
    [Arial |-> <<"Regular", "Black">>, Calibri |-> <<"Light", "Regular">>]
\* the values of the widgets when the node is created
originalDefaults == [font_family |-> "Arial", font_weight |-> "Regular"]

\* the values a widget offers
ParamValues(blk, p) ==
    IF p = "font_family" THEN DOMAIN fontWeightMap
    ELSE {fontWeightMap[blk.vals.font_family][i] :
              i \in DOMAIN fontWeightMap[blk.vals.font_family]}

\* a Text Block after it was created: vals are the widget values, linked is
\* whether its output is linked to the Overlay Text node, check whether a
\* timer of onConnectionsChange for a new link is pending
NewBlock ==
    [vals |-> originalDefaults, userModified |-> {}, set_as_default |-> FALSE,
     linked |-> FALSE, check |-> FALSE]

\* clobbered is whether applying or restoring defaults changed a widget that
\* was marked as modified by the user
NewBlocks == [kind |-> "blocks", blocks |-> [b \in Blocks |-> NewBlock], clobbered |-> FALSE]

\* updateFontWeights: the weight is kept when the family offers it, else the
\* first weight of the family is taken
updateFontWeights(vals) ==
    LET weights == fontWeightMap[vals.font_family]
    IN  IF \E i \in DOMAIN weights : weights[i] = vals.font_weight
        THEN vals
        ELSE [vals EXCEPT !.font_weight = weights[1]]

\* widget.value = value followed by widget.callback(value) without the
\* tracking part: the callback of font_family calls updateFontWeights
SetWidget(vals, p, value) ==
    IF p = "font_family"
    THEN updateFontWeights([vals EXCEPT ![p] = value])
    ELSE [vals EXCEPT ![p] = value]

\* the loop of applyDefaultValuesToNode and of restoreToOriginalDefaults over
\* the widgets from the i-th on: a widget that is not marked is set to the
\* given value and its callback is called
RECURSIVE ApplyUnmodified(_, _, _)
ApplyUnmodified(blk, values, i) ==
    IF i > Len(Params) THEN blk
    ELSE LET p == Params[i]
         IN  ApplyUnmodified(IF p \notin blk.userModified /\ blk.vals[p] # values[p]
                             THEN [blk EXCEPT !.vals = SetWidget(@, p, values[p])]
                             ELSE blk, values, i + 1)

applyDefaultValuesToNode(blk, defaultValues) == ApplyUnmodified(blk, defaultValues, 1)

restoreToOriginalDefaults(blk) == ApplyUnmodified(blk, originalDefaults, 1)

\* getTextBlocksConnectedToOverlay for the Overlay Text node of block b,
\* none when b is not linked
ConnectedBlocks(bs, b) == IF bs[b].linked THEN {c \in Blocks : bs[c].linked} ELSE {}

\* the first linked block other than b whose set_as_default is on
OtherDefaults(bs, b) == {c \in ConnectedBlocks(bs, b) \ {b} : bs[c].set_as_default}

\* ensureOnlyOneDefaultNode followed by broadcastDefaultValues for block b:
\* the switch of every other linked block is turned off, its callback runs
\* broadcastDefaultCancellation, which finds b as the remaining default node
\* and applies its values, and then the values of b are broadcast
TurnOnDefault(bs, b) ==
    [c \in Blocks |->
        IF c \in ConnectedBlocks(bs, b) \ {b}
        THEN applyDefaultValuesToNode([bs[c] EXCEPT !.set_as_default = FALSE], bs[b].vals)
        ELSE bs[c]]

\* broadcastDefaultCancellation for block b
broadcastDefaultCancellation(bs, b) ==
    [c \in Blocks |->
        IF c \in ConnectedBlocks(bs, b) \ {b} /\ ~bs[c].set_as_default
        THEN IF OtherDefaults(bs, b) # {}
             THEN applyDefaultValuesToNode(bs[c],
                      bs[CHOOSE d \in OtherDefaults(bs, b) : TRUE].vals)
             ELSE restoreToOriginalDefaults(bs[c])
        ELSE bs[c]]

\* handleDefaultValueChange for block b after its switch changed
handleDefaultValueChange(bs, b) ==
    IF bs[b].set_as_default THEN TurnOnDefault(bs, b)
    ELSE broadcastDefaultCancellation(bs, b)

\* checkAndApplyExistingDefaults for block b
checkAndApplyExistingDefaults(bs, b) ==
    IF OtherDefaults(bs, b) # {}
    THEN [bs EXCEPT ![b] = applyDefaultValuesToNode(@,
                                bs[CHOOSE d \in OtherDefaults(bs, b) : TRUE].vals)]
    ELSE bs

\* some widget marked as modified in before differs in after
Clobbers(before, after) ==
    \E b \in Blocks : \E p \in before[b].userModified : after[b].vals[p] # before[b].vals[p]

\* the user sets a tracked widget: the tracking callback marks it, and for
\* font_family the weight widget is updated and its callback marks it too
UserSetsParam ==
    \E b \in Blocks, i \in DOMAIN Params :
        \E v \in ParamValues(graph.blocks[b], Params[i]) :
            /\ graph.kind = "blocks"
            /\ v # graph.blocks[b].vals[Params[i]]
            /\ graph' = [graph EXCEPT !.blocks[b] =
                            [@ EXCEPT !.vals = SetWidget(@, Params[i], v),
                                      !.userModified =
                                          @ \cup (IF Params[i] = "font_family"
                                                  THEN {"font_family", "font_weight"}
                                                  ELSE {Params[i]})]]
            /\ UNCHANGED <<backend_vars, nodes>>

\* the user switches set_as_default of a block: handleDefaultValueChange
UserTogglesDefault ==
    \E b \in Blocks :
        /\ graph.kind = "blocks"
        /\ LET bs == [graph.blocks EXCEPT ![b].set_as_default = ~@]
               after == handleDefaultValueChange(bs, b)
           IN  graph' = [graph EXCEPT !.blocks = after,
                                      !.clobbered = @ \/ Clobbers(bs, after)]
        /\ UNCHANGED <<backend_vars, nodes>>

\* the output of a block is linked to the Overlay Text node, or its link is
\* broken: onConnectionsChange sets a timer
BlockLinkChanges ==
    \E b \in Blocks :
        /\ graph.kind = "blocks"
        /\ graph' = [graph EXCEPT !.blocks[b] =
                        [@ EXCEPT !.linked = ~@, !.check = @ \/ ~graph.blocks[b].linked]]
        /\ UNCHANGED <<backend_vars, nodes>>

\* the 100 ms timer of onConnectionsChange for a new link fires
CheckTimerFires ==
    \E b \in Blocks :
        /\ graph.kind = "blocks"
        /\ graph.blocks[b].check
        /\ LET bs == [graph.blocks EXCEPT ![b].check = FALSE]
               after == checkAndApplyExistingDefaults(bs, b)
           IN  graph' = [graph EXCEPT !.blocks = after,
                                      !.clobbered = @ \/ Clobbers(bs, after)]
        /\ UNCHANGED <<backend_vars, nodes>>

\* menu entry Reset Parameter Modifications
MenuResetModifications ==
    \E b \in Blocks :
        /\ graph.kind = "blocks"
        /\ LET bs == [graph.blocks EXCEPT ![b].userModified = {}]
               after == checkAndApplyExistingDefaults(bs, b)
           IN  graph' = [graph EXCEPT !.blocks = after,
                                      !.clobbered = @ \/ Clobbers(bs, after)]
        /\ UNCHANGED <<backend_vars, nodes>>

\* menu entry Restore to Original Defaults
MenuRestoreDefaults ==
    \E b \in Blocks :
        /\ graph.kind = "blocks"
        /\ LET after == [graph.blocks EXCEPT ![b] = restoreToOriginalDefaults(@)]
           IN  graph' = [graph EXCEPT !.blocks = after,
                                      !.clobbered = @ \/ Clobbers(graph.blocks, after)]
        /\ UNCHANGED <<backend_vars, nodes>>

NextBlocks ==
    \/ UserSetsParam
    \/ UserTogglesDefault
    \/ BlockLinkChanges
    \/ CheckTimerFires
    \/ MenuResetModifications
    \/ MenuRestoreDefaults

InitBlocks == StartOn(0) /\ cache_limit = 150 /\ graph = NewBlocks

SpecBlocks == InitBlocks /\ [][NextBlocks]_vars

\* ---------------------------------------------------- Global Variables
\* the Set Global Variable nodes the graph can hold
Setters == {"set1", "set2"}
\* the values of the variable_name widget of a setter, empty when not typed
VarNames == {"", "x", "y"}
\* the argument of initialize in onAdded
InitRetries == 5
\* the delay of the timer of initialize
RetryDelayMs == 250

\* a graph with one Get Global Variable node that is not yet added: value and
\* options are its variable_name widget, timer is whether a call of initialize
\* is pending and retries its argument, scheduled counts the timers
\* initialize has set
NewGetVar ==
    [kind |-> "getvar",
     setters |-> [s \in Setters |-> [present |-> FALSE, name |-> ""]],
     added |-> FALSE, value |-> "none", options |-> {"none"},
     timer |-> FALSE, retries |-> InitRetries, scheduled |-> 0]

\* the names of the setters in the graph, empty names left out
validVariableNames(g) ==
    {g.setters[s].name : s \in {t \in Setters : g.setters[t].present}} \ {""}

updateVariableList(g, oldName, newName) ==
    LET renamed == /\ oldName # "" /\ newName # "" /\ g.value = oldName
                   /\ oldName \notin validVariableNames(g)
    IN  [g EXCEPT !.value = IF renamed THEN newName ELSE @,
                  !.options = IF validVariableNames(g) = {} THEN {"none"}
                              ELSE validVariableNames(g)]

\* whether initialize sets its timer again
MustRetry(g) ==
    /\ \E s \in Setters : g.setters[s].present
    /\ Cardinality(g.options) <= 1
    /\ (g.options = {"none"} \/ g.value \notin g.options)

\* initialize that passes retries on to the next call unchanged
initializeNoCountdown(g, retries) ==
    IF retries < 0 THEN g
    ELSE LET h == updateVariableList(g, "", "")
         IN  IF MustRetry(h)
             THEN [h EXCEPT !.timer = TRUE, !.retries = retries,
                            !.scheduled = Min(@ + 1, InitRetries + 2)]
             ELSE h

initialize(g, retries) ==
    IF retries < 0 THEN g
    ELSE LET h == updateVariableList(g, "", "")
         IN  IF MustRetry(h)
             THEN [h EXCEPT !.timer = TRUE, !.retries = retries - 1,
                            !.scheduled = Min(@ + 1, InitRetries + 2)]
             ELSE h

\* onAdded of the Get Global Variable node
GetterAdded ==
    /\ graph.kind = "getvar"
    /\ ~graph.added
    /\ graph' = initialize([graph EXCEPT !.added = TRUE], InitRetries)
    /\ UNCHANGED <<backend_vars, nodes>>

\* the timer of initialize fires
InitializeTimerFires ==
    /\ graph.kind = "getvar"
    /\ graph.timer
    /\ graph' = initialize([graph EXCEPT !.timer = FALSE], graph.retries)
    /\ UNCHANGED <<backend_vars, nodes>>

\* a Set Global Variable node is put into the graph
SetterAdded ==
    \E s \in Setters :
        /\ graph.kind = "getvar"
        /\ ~graph.setters[s].present
        /\ graph' = [graph EXCEPT !.setters[s] = [present |-> TRUE, name |-> ""]]
        /\ UNCHANGED <<backend_vars, nodes>>

\* the user types a name into a setter: broadcastUpdates
SetterRenamed ==
    \E s \in Setters, name \in VarNames :
        /\ graph.kind = "getvar"
        /\ graph.setters[s].present
        /\ name # graph.setters[s].name
        /\ LET g == [graph EXCEPT !.setters[s].name = name]
           IN  graph' = IF graph.added
                        THEN updateVariableList(g, graph.setters[s].name, name)
                        ELSE g
        /\ UNCHANGED <<backend_vars, nodes>>

\* a setter is removed from the graph: onRemoved and its timer
SetterRemoved ==
    \E s \in Setters :
        /\ graph.kind = "getvar"
        /\ graph.setters[s].present
        /\ LET g == [graph EXCEPT !.setters[s] = [present |-> FALSE, name |-> ""]]
           IN  graph' = IF graph.added
                        THEN updateVariableList(g, graph.setters[s].name, "")
                        ELSE g
        /\ UNCHANGED <<backend_vars, nodes>>

\* the user picks an entry of the variable_name combo of the getter
GetterPicksName ==
    \E name \in graph.options :
        /\ graph.kind = "getvar"
        /\ graph.added
        /\ name # graph.value
        /\ graph' = [graph EXCEPT !.value = name]
        /\ UNCHANGED <<backend_vars, nodes>>

NextGetVar ==
    \/ GetterAdded
    \/ InitializeTimerFires
    \/ SetterAdded
    \/ SetterRenamed
    \/ SetterRemoved
    \/ GetterPicksName

InitGetVar == StartOn(0) /\ cache_limit = 150 /\ graph = NewGetVar

SpecGetVar == InitGetVar /\ [][NextGetVar]_vars

\* a timer that is set fires after its delay
SpecGetVarFair == SpecGetVar /\ WF_vars(InitializeTimerFires)

\* every request of the browser settles: it resolves or it rejects
SpecNodesFair ==
    /\ SpecNodes
    /\ WF_vars(RHFetchReturns)
    /\ WF_vars(ACFetchSettles)
    /\ WF_vars(ACJsonSettles)
    /\ WF_vars(ACTextSettles)

\* ----------------------------------------------------------------- process
ProcessCall(T, S) ==
    /\ pc \in {"idle", "done", "raised"}
    /\ in_text' = T
    /\ in_seed' = S
    /\ text' = process_comment_out(T)
    /\ rng' \in SeedStates(S)
    /\ iter' = 0
    /\ work' = <<>>
    /\ out' = <<>>
    /\ pos' = 1
    /\ pc' = "options"
    /\ saw_partial' = FALSE
    /\ stale_insert' = FALSE
    /\ clean' = TRUE
    /\ ret' = <<>>
    /\ last' = NoLast
    /\ UNCHANGED <<nodes, graph, env_vars, store_vars, refresh_vars, cur, memo>>

PassOptions ==
    /\ pc = "options"
    /\ LET ro == replace_options(text, rng)
       IN  /\ work' = ro.text
           /\ rng' = ro.rng
           /\ pc' = IF ro.raised THEN "raised" ELSE "wild"
    /\ out' = <<>>
    /\ pos' = 1
    /\ UNCHANGED <<nodes, graph, env_vars, store_vars, refresh_vars, in_text, in_seed, text, iter,
                   cur, saw_partial, stale_insert, clean, ret, last, memo>>

\* the keyword of the next wildcard token, when there is one
HasWc == pc = "wild" /\ NextWc(work, pos) /= 0
NextTok == work[NextWc(work, pos)]
Keyword == wildcard_normalize(NextTok.v)
Copied == out \o SubSeq(work, pos, NextWc(work, pos) - 1)
CurExact == GwvExact(on_demand_mode, wildcard_dict, available_wildcards,
                     loaded_wildcards, disk, Keyword)

\* get_wildcard_value answers from the loaded index (Phase 1)
ResolveLoaded ==
    /\ HasWc
    /\ CurExact.phase = 1
    /\ LET sel == Selected(NextTok, CurExact.res, rng)
       IN  /\ out' = Copied \o sel.text
           /\ rng' = sel.rng
           /\ pc' = IF sel.raised THEN "raised" ELSE pc
    /\ pos' = NextWc(work, pos) + 1
    /\ last' = [key |-> Keyword, phase |-> 1, res |-> CurExact.res]
    /\ saw_partial' = (saw_partial \/ rpc = "cleared")
    /\ loaded_wildcards' = CurExact.loaded
    /\ UNCHANGED <<nodes, graph, env_vars, on_demand_mode, wildcard_dict, available_wildcards,
                   refresh_vars, in_text, in_seed, text,
                   work, iter, cur, stale_insert, clean, ret, memo>>

\* get_wildcard_value finds the file of a key that is not loaded (Phase 2)
ResolveFind ==
    /\ HasWc
    /\ CurExact.phase = 2
    /\ cur' = [key |-> Keyword, path |-> find_wildcard_file(available_wildcards, Keyword).val,
               data |-> None, refreshed |-> "no", tok |-> NextTok]
    /\ out' = Copied
    /\ pos' = NextWc(work, pos)
    /\ pc' = "load"
    /\ saw_partial' = (saw_partial \/ rpc = "cleared")
    /\ UNCHANGED <<nodes, graph, env_vars, store_vars, refresh_vars, in_text, in_seed, text,
                   work, rng, iter, stale_insert, clean, ret, last, memo>>

\* ... reads the file
ResolveLoad ==
    /\ pc = "load"
    /\ cur' = [cur EXCEPT !.data = load_txt_wildcard(disk, cur.path)]
    /\ pc' = "store"
    /\ UNCHANGED <<nodes, graph, env_vars, store_vars, refresh_vars, call_vars, saw_partial,
                   stale_insert, clean, ret, last, memo>>

\* ... and caches and returns the data
ResolveStore ==
    /\ pc = "store"
    /\ loaded_wildcards' = IF cur.data.ok THEN Put(loaded_wildcards, cur.key, cur.data.val)
                                          ELSE loaded_wildcards
    /\ stale_insert' = (stale_insert \/ (cur.data.ok /\ cur.refreshed = "rebuilt"))
    /\ LET sel == Selected(cur.tok, cur.data, rng)
       IN  /\ out' = out \o sel.text
           /\ rng' = sel.rng
           /\ pc' = IF sel.raised THEN "raised" ELSE "wild"
    /\ pos' = pos + 1
    /\ last' = [key |-> cur.key, phase |-> 2, res |-> cur.data]
    /\ cur' = NoCur
    /\ UNCHANGED <<nodes, graph, env_vars, on_demand_mode, wildcard_dict, available_wildcards,
                   refresh_vars, in_text, in_seed, text, work, iter,
                   saw_partial, clean, ret, memo>>

\* get_wildcard_value has no exact match and tries the fallback (Phase 3)
CurFallback == GwvFallback(on_demand_mode, wildcard_dict, available_wildcards,
                           loaded_wildcards, disk, Keyword)

ResolveFallback ==
    /\ HasWc
    /\ CurExact.phase = 0
    /\ loaded_wildcards' = CurFallback.loaded
    /\ saw_partial' = (saw_partial \/ rpc = "cleared")
    /\ last' = [key |-> Keyword, phase |-> CurFallback.phase, res |-> CurFallback.res]
    /\ LET sel == Selected(NextTok, CurFallback.res, rng)
       IN  /\ out' = Copied \o sel.text
           /\ rng' = sel.rng
           /\ pc' = IF CurFallback.raised \/ sel.raised THEN "raised" ELSE pc
    /\ pos' = NextWc(work, pos) + 1
    /\ UNCHANGED <<nodes, graph, env_vars, on_demand_mode, wildcard_dict, available_wildcards,
                   refresh_vars, in_text, in_seed, text, work, iter, cur,
                   stale_insert, clean, ret, memo>>

\* the text the pass has produced
NewText == out \o SubSeq(work, pos, Len(work))
PassDone == pc = "wild" /\ NextWc(work, pos) = 0

\* the pass changed the text and the loop goes on
PassAgain ==
    /\ PassDone
    /\ NewText /= text
    /\ loop_continues(iter + 1)
    /\ text' = NewText
    /\ iter' = iter + 1
    /\ pc' = "options"
    /\ work' = <<>>
    /\ out' = <<>>
    /\ pos' = 1
    /\ UNCHANGED <<nodes, graph, env_vars, store_vars, refresh_vars, in_text, in_seed,
                   rng, cur, saw_partial, stale_insert, clean, ret, last, memo>>

\* the pass changed nothing, or it was the last pass allowed: process returns
ProcessReturn ==
    /\ PassDone
    /\ NewText = text \/ ~loop_continues(iter + 1)
    /\ text' = NewText
    /\ iter' = iter + 1
    /\ ret' = ReturnValue(NewText, iter + 1)
    /\ pc' = "done"
    /\ work' = <<>>
    /\ out' = <<>>
    /\ pos' = 1
    /\ rng' = 0
    /\ UNCHANGED <<nodes, graph, env_vars, store_vars, refresh_vars, in_text, in_seed,
                   cur, saw_partial, stale_insert, clean, last, memo>>

\* the harness keeps the result of a call to compare later calls with
Remember ==
    /\ pc = "done"
    /\ clean
    /\ in_seed /= NoSeed
    /\ ~memo.set
    /\ memo' = [set |-> TRUE, text |-> in_text, seed |-> in_seed, result |-> ret]
    /\ pc' = "idle"
    /\ UNCHANGED <<nodes, graph, env_vars, store_vars, refresh_vars, call_vars, cur,
                   saw_partial, stale_insert, clean, ret, last>>

CallStore == \E T \in StoreTexts, S \in SeedArgs : ProcessCall(T, S)

\* process() calls of a worker thread against refreshes and file edits
Next ==
    \/ EditFiles
    \/ RefreshAcquire
    \/ RefreshClear
    \/ RefreshLoad
    \/ CallStore
    \/ PassOptions
    \/ ResolveLoaded
    \/ ResolveFind
    \/ ResolveLoad
    \/ ResolveStore
    \/ ResolveFallback
    \/ PassAgain
    \/ ProcessReturn

Spec == Init /\ [][Next]_vars

\* the options o1|...|ok of a block, each option one literal
RECURSIVE BarList(_)
BarList(opts) ==
    IF opts = <<>> THEN <<>>
    ELSE IF Len(opts) = 1 THEN <<Lit(opts[1])>>
         ELSE <<Lit(opts[1]), Bar>> \o BarList(Tail(opts))

\* the block {n$$sep$$o1|...|ok}
MultiBlock(n, sep, opts) ==
    <<Open, Num(n), DD>> \o sep \o <<DD>> \o BarList(opts) \o <<Close>>

\* multi-select prompts: a count within the options, a count equal to their
\* number, options with equal texts, a count and ranges beyond the options
MultiTexts ==
    { MultiBlock(3, <<Lit(","), Sp>>, <<"a", "b", "c", "d", "e">>),
      MultiBlock(2, <<Sp, Lit("and"), Sp>>, <<"red", "blue", "green">>),
      MultiBlock(4, <<Dash>>, <<"cat", "dog", "bird", "fish">>),
      MultiBlock(2, <<Dash>>, <<"a", "a", "b">>),
      MultiBlock(5, <<Lit(","), Sp>>, <<"a", "b", "c">>),
      <<Open, Num(2), Dash, Num(4), DD, Lit(";"), Sp, DD>>
          \o BarList(<<"a", "b", "c">>) \o <<Close>>,
      <<Open, Dash, Num(2), DD>> \o BarList(<<"x", "y", "z">>) \o <<Close>> }

\* weighted prompts: the weight before the text, the number after the text,
\* equal weights, three weights, weighted options mixed with plain ones
WeightedTexts ==
    { <<Open, Num(10), CC, Lit("common"), Bar, Num(1), CC, Lit("rare"), Close>>,
      <<Open, Lit("common"), CC, Num(10), Bar, Lit("rare"), CC, Num(1), Close>>,
      <<Open, Num(1), CC, Lit("alpha"), Bar, Num(1), CC, Lit("beta"), Bar,
        Num(1), CC, Lit("gamma"), Close>>,
      <<Open, Num(5), CC, Lit("high"), Bar, Num(3), CC, Lit("medium"), Bar,
        Num(2), CC, Lit("low"), Close>>,
      <<Open, Num(10), CC, Lit("weighted"), Bar, Lit("unweighted"), Close>>,
      <<Open, Num(5), CC, Lit("red"), Bar, Lit("green"), Bar,
        Num(2), CC, Lit("blue"), Close>> }

\* quantifier prompts: alone, on a name that matches no key, and as the
\* options of a multi-select block
QuantTexts ==
    { <<Num(3), Hash, Wc("flower")>>,
      <<Lit("x"), Sp, Num(2), Hash, Wc("nope")>>,
      <<Open, Num(2), DD, Lit(","), Sp, DD, Num(3), Hash, Wc("flower"), Close>> }

\* prompts with comments: a # inside a line followed by a comment line, and
\* a # inside a line followed by a plain line
CommentTexts ==
    { <<Lit("first"), Sp, Open, Lit("a"), Bar, Lit("b"), Bar, Lit("c"), Close, Sp,
        Lit("second"), Sp, Hash, Sp, Lit("not a comment,"), NL,
        Hash, Sp, Lit("this is a comment"), NL,
        Lit("trailing text")>>,
      <<Lit("first"), Sp, Lit("second"), Sp, Hash, Sp, Lit("comment"), NL,
        Lit("third")>> }

\* prompts with an opening brace that is never closed: after a text, and
\* around a complete block
UnclosedTexts ==
    { <<Lit("x"), Sp, Open, Lit("a"), Bar, Lit("b")>>,
      <<Open, Lit("a"), Bar, Open, Lit("b"), Bar, Lit("c"), Close>> }

SeqTexts ==
    GrammarTexts \cup MultiTexts \cup WeightedTexts \cup QuantTexts
        \cup CommentTexts \cup UnclosedTexts \cup {<<Wc("colors/warm")>>}
        \cup {<<Wc("Dragon")>>, <<Wc("warm")>>, <<Wc("flower"), Sp, Lit("x")>>}
CallGrammar == \E T \in SeqTexts, S \in SeedArgs : ProcessCall(T, S)

\* process() calls one after the other, no refresh and no file edit
NextSeq ==
    \/ CallGrammar
    \/ PassOptions
    \/ ResolveLoaded
    \/ ResolveFind
    \/ ResolveLoad
    \/ ResolveStore
    \/ ResolveFallback
    \/ PassAgain
    \/ ProcessReturn

SpecSeq == Init /\ [][NextSeq]_vars

\* process() calls one after the other on the directory of the chain files
ChainTexts ==
    { <<Wc("c1")>>,
      <<Wc("c51")>>,
      <<Lit("x"), Sp, Wc("c100")>>,
      <<Wc("nope")>> }
CallChain == \E T \in ChainTexts, S \in SeedArgs : ProcessCall(T, S)

NextChain ==
    \/ CallChain
    \/ PassOptions
    \/ ResolveLoaded
    \/ ResolveFind
    \/ ResolveLoad
    \/ ResolveStore
    \/ ResolveFallback
    \/ PassAgain
    \/ ProcessReturn

SpecChain == StartOn(ChainRev) /\ graph = NoGraph /\ [][NextChain]_vars

\* the inside of a prompt that is one block
Inner(T) == SubSeq(T, 2, Len(T) - 1)

\* replace_options on a weighted prompt, for each variate the generator can
\* hand to the choice: rng holds the variate, ret the expansion
DrawWeighted ==
    /\ pc \in {"idle", "done"}
    /\ \E T \in WeightedTexts :
         \E u \in 0..(TotalWeight(Inner(T)) - 1) :
            /\ in_text' = T
            /\ rng' = u
            /\ ret' = replace_options(T, u).text
    /\ pc' = "done"
    /\ UNCHANGED <<nodes, graph, env_vars, store_vars, refresh_vars, in_seed, text, work, out,
                   pos, iter, cur, saw_partial, stale_insert, clean, last, memo>>

NextWeights == DrawWeighted

SpecWeights == Init /\ [][NextWeights]_vars

\* the spellings of one wildcard name in lower, upper and mixed case, for a
\* key with a file of its own and for a key that the fallback resolves
CaseTexts ==
    { <<Wc("flower")>>, <<Wc("FLOWER")>>, <<Wc("Flower")>>,
      <<Wc("dragon")>>, <<Wc("DRAGON")>>, <<Wc("Dragon")>> }
CallCase == \E T \in CaseTexts, S \in Seeds : ProcessCall(T, S)

\* seeded process() calls one after the other, with the harness that keeps
\* the result of a call
NextCase ==
    \/ CallCase
    \/ PassOptions
    \/ ResolveLoaded
    \/ ResolveFind
    \/ ResolveLoad
    \/ ResolveStore
    \/ ResolveFallback
    \/ PassAgain
    \/ ProcessReturn
    \/ Remember

SpecCase == Init /\ [][NextCase]_vars

\* the concurrent system, called with seeds, with a harness that compares
\* the results of calls
CallSeeded == \E T \in StoreTexts, S \in Seeds : ProcessCall(T, S)

NextDet ==
    \/ EditFiles
    \/ RefreshAcquire
    \/ RefreshClear
    \/ RefreshLoad
    \/ CallSeeded
    \/ PassOptions
    \/ ResolveLoaded
    \/ ResolveFind
    \/ ResolveLoad
    \/ ResolveStore
    \/ ResolveFallback
    \/ PassAgain
    \/ ProcessReturn
    \/ Remember

SpecDet == Init /\ [][NextDet]_vars

\* ------------------------------------------------------------- properties
InCall == pc \in {"options", "wild", "load", "store"}
\* the call can take a step: one of the steps below is enabled, or the
\* options step is (its guard is pc = "options"), or the fallback step is
\* (its guard is HasWc and no exact match)
CanStep ==
    \/ pc = "options"
    \/ ENABLED (ResolveLoaded \/ ResolveFind \/ ResolveLoad
                    \/ ResolveStore \/ PassAgain \/ ProcessReturn)
    \/ (HasWc /\ CurExact.phase = 0)

Range(f) == {f[i] : i \in DOMAIN f}

\* C1: two process() calls with the same text and the same seed, with no
\* refresh and no file edit from the start of the first to the end of the
\* second, return the same text.
C1_Determinism ==
    (pc = "done" /\ clean /\ memo.set /\ memo.text = in_text /\ memo.seed = in_seed)
        => ret = memo.result

C1_Witness ==
    /\ pc = "done" /\ clean /\ memo.set
    /\ memo.text = in_text /\ memo.seed = in_seed
    /\ in_text = <<Open, Lit("p"), Bar, Wc("FLOWER"), Close>>
    /\ on_demand_mode
    /\ ret = <<Lit("rose")>>

\* C2: process() makes at most max_iterations (100) passes: a call in
\* progress has made fewer than 100 and can take its next step, and a call
\* that has made 100 has returned.
C2_PassCeiling ==
    /\ iter <= max_iterations
    /\ InCall => (iter < max_iterations /\ CanStep)

C2_Witness ==
    /\ pc = "done"
    /\ iter = max_iterations
    /\ in_text = <<Wc("A")>>

\* C3: no process() call reads the indices while a refresh has cleared them
\* and not yet rebuilt them.
C3_NoPartialView == ~saw_partial

\* C4: every resolution of the running store gives the option list that a
\* store built from the same files in the other loading mode gives.
OtherLimit ==
    CHOOSE l \in CacheLimits :
        determine_loading_mode(disk, l) /= determine_loading_mode(disk, cache_limit)
FreshStore(rev, limit) == wildcard_load(rev, limit, EmptyDict, EmptyDict, EmptyDict)
FreshResolve(rev, limit, key) ==
    get_wildcard_value(FreshStore(rev, limit).mode, FreshStore(rev, limit).dict,
                       FreshStore(rev, limit).avail, FreshStore(rev, limit).loaded,
                       rev, key).res
C4_ModeEquivalence ==
    last.phase >= 0 => last.res = FreshResolve(disk, OtherLimit, last.key)

\* C5: process() never raises: no call ends in an exception, and what a
\* call returns is a text.
TokenKinds == {"lit", "wc", "open", "bar", "close", "hash", "nl", "sp", "num", "dd", "dash", "cc"}
C5_NeverRaises ==
    /\ pc /= "raised"
    /\ pc = "done" => \A i \in DOMAIN ret : ret[i].t \in TokenKinds

C5_Witness ==
    /\ pc = "done"
    /\ in_text = <<Wc("nope")>>
    /\ ret = <<Wc("nope")>>
    /\ last.phase = 0

\* C6: with the files a (holding __B__) and b (holding __A__),
\* process("__A__", 1) returns a text that contains __A__ or __B__.
C6_CycleReturns ==
    (pc = "done" /\ in_text = <<Wc("A")>> /\ in_seed = 1)
        => (Wc("A") \in Range(ret) \/ Wc("B") \in Range(ret))

C6_Witness ==
    /\ pc = "done"
    /\ in_text = <<Wc("A")>>
    /\ in_seed = 1
    /\ iter = max_iterations
    /\ ret = <<Wc("A")>>

\* C7: no lazy load puts into loaded_wildcards, after a refresh has cleared
\* and rebuilt the indices, data whose miss was seen before that refresh.
C7_NoStaleInsert == ~stale_insert

\* C8: a resolution answers from the loaded index when the key is in it;
\* otherwise, in on-demand mode, a key of the availability index is loaded
\* from its own file and that list is returned; the fallback runs only for
\* a key that is in neither.
LoadedEntry(key) ==
    IF key \in DOMAIN loaded_wildcards THEN Some(loaded_wildcards[key])
    ELSE IF ~on_demand_mode THEN EagerLookup(wildcard_dict, key)
    ELSE None
Answered == HasWc /\ (pc' /= pc \/ pos' /= pos)
FallbackStep == HasWc /\ pc' \in {"wild", "raised"} /\ pos' /= pos /\ last'.phase \in {0, 3}
C8_ResolutionOrder ==
    [][ /\ (Answered /\ LoadedEntry(Keyword).ok)
            => /\ last' = [key |-> Keyword, phase |-> 1, res |-> LoadedEntry(Keyword)]
               /\ pc' = pc
        /\ (Answered /\ ~LoadedEntry(Keyword).ok /\ on_demand_mode
                     /\ Keyword \in DOMAIN available_wildcards)
            => /\ pc' = "load"
               /\ cur'.key = Keyword
               /\ cur'.path = available_wildcards[Keyword]
        /\ (pc = "load" /\ pc' = "store")
            => cur'.data = load_txt_wildcard(disk, cur.key)
        /\ (pc = "store" /\ pc' /= "store")
            => last' = [key |-> cur.key, phase |-> 2, res |-> cur.data]
        /\ FallbackStep
            => /\ ~LoadedEntry(Keyword).ok
               /\ ~(on_demand_mode /\ Keyword \in DOMAIN available_wildcards)
      ]_vars

C8_Witness ==
    /\ last = [key |-> "flower", phase |-> 2, res |-> Some(<<<<Lit("rose")>>, <<Lit("tulip")>>>>)]
    /\ "flower" \in DOMAIN loaded_wildcards
    /\ pc = "done"
    /\ in_text = <<Wc("flower"), Sp, Lit("x")>>

\* C9: when a key has no exact match, the fallback returns the option lists
\* of all known keys (loaded or available) that match it, every entry kept
\* as often as it occurs.
KnownKeys ==
    DOMAIN loaded_wildcards \cup DOMAIN available_wildcards
        \cup (IF on_demand_mode THEN {} ELSE DOMAIN wildcard_dict)
OptionList(k) ==
    IF LoadedEntry(k).ok THEN LoadedEntry(k).val
    ELSE load_txt_wildcard(disk, available_wildcards[k]).val
CountIn(seq, x) == Cardinality({i \in DOMAIN seq : seq[i] = x})
RECURSIVE CountAll(_, _)
CountAll(S, x) ==
    IF S = {} THEN 0
    ELSE LET k == CHOOSE y \in S : TRUE
         IN  CountIn(OptionList(k), x) + CountAll(S \ {k}, x)
MatchingKnown(key) == {k \in KnownKeys : matches_depth_agnostic(k, key)}
C9_FallbackUnion ==
    [][ (FallbackStep /\ MatchingKnown(Keyword) /= {})
            => /\ last'.res.ok
               /\ \A k \in MatchingKnown(Keyword) : \A x \in Range(OptionList(k)) :
                     CountIn(last'.res.val, x) = CountAll(MatchingKnown(Keyword), x)
      ]_vars

\* C10: a fallback that found a pool for a key has stored that pool in
\* loaded_wildcards under the key, and the next resolution of the key is
\* answered by the direct lookup with the same pool.
C10_FallbackCached ==
    [][ (FallbackStep /\ last'.phase = 3 /\ last'.res.ok)
            => /\ Keyword \in DOMAIN loaded_wildcards'
               /\ loaded_wildcards'[Keyword] = last'.res.val
               /\ LET again == get_wildcard_value(on_demand_mode', wildcard_dict',
                                   available_wildcards', loaded_wildcards', disk', Keyword)
                  IN  again.phase = 1 /\ again.res = last'.res
      ]_vars

C10_Witness ==
    /\ last = [key |-> "dragon", phase |-> 3,
               res |-> Some(<<<<Lit("red")>>, <<Lit("flame")>>, <<Lit("red")>>, <<Lit("blue")>>>>)]
    /\ "dragon" \in DOMAIN loaded_wildcards
    /\ loaded_wildcards["dragon"] = last.res.val
    /\ on_demand_mode

\* C11: when the file of a key cannot be read, the call does not end in an
\* exception, and the text it returns still holds the token of that key.
C11_ReadFailureContained ==
    (last.phase \in {2, 3} /\ ~last.res.ok)
        => /\ pc /= "raised"
           /\ pc = "done" =>
                \E i \in DOMAIN ret :
                    ret[i].t = "wc" /\ wildcard_normalize(ret[i].v) = last.key

FromScanOrWindow(post, pre, scan) ==
    \A k \in DOMAIN post :
        \/ k \in DOMAIN scan /\ post[k] = scan[k]
        \/ k \in DOMAIN pre /\ post[k] = pre[k]
C13_RefreshDropsCaches ==
    [][ /\ (rpc = "locked" /\ rpc' = "cleared")
            => /\ wildcard_dict' = EmptyDict
               /\ loaded_wildcards' = EmptyDict
               /\ available_wildcards' = EmptyDict
        /\ (rpc = "cleared" /\ rpc' = "idle")
            => /\ wildcard_dict' = FreshStore(disk, cache_limit).dict
               /\ available_wildcards' = FreshStore(disk, cache_limit).avail
               /\ FromScanOrWindow(loaded_wildcards', loaded_wildcards,
                                   FreshStore(disk, cache_limit).loaded)
               /\ \A k \in DOMAIN FreshStore(disk, cache_limit).loaded :
                     k \in DOMAIN loaded_wildcards'
      ]_vars

\* a call cached the pool of dragon and returned, and a refresh that has
\* since returned dropped it
C13_Witness ==
    /\ pc = "done"
    /\ last.key = "dragon" /\ last.phase = 3 /\ last.res.ok
    /\ "dragon" \notin DOMAIN loaded_wildcards
    /\ rpc = "idle" /\ wildcard_lock = "free"
    /\ on_demand_mode
    /\ "dragon/fire" \in DOMAIN available_wildcards

\* C14: a step that is not a step of a refresh keeps every entry of the
\* loaded index (loaded_wildcards, and wildcard_dict in full cache mode)
\* with its option list.
Keeps(pre, post) == \A k \in DOMAIN pre : k \in DOMAIN post /\ post[k] = pre[k]
C14_LoadedOnlyGrows ==
    [][ (rpc' = rpc)
            => /\ Keeps(loaded_wildcards, loaded_wildcards')
               /\ Keeps(wildcard_dict, wildcard_dict')
      ]_vars

C14_Witness ==
    /\ on_demand_mode
    /\ {"flower", "dragon", "dragon/fire", "fantasy/dragon", "colors/warm"}
            \subseteq DOMAIN loaded_wildcards
    /\ loaded_wildcards["flower"] = <<<<Lit("rose")>>, <<Lit("tulip")>>>>
    /\ disk = 1

C16_ModeBySize ==
    edits = 0
        => /\ (~on_demand_mode) <=> (TotalSize(disk) < cache_limit)
           /\ (TotalSize(disk) >= cache_limit) => on_demand_mode

C16_Witness ==
    /\ edits = 0
    /\ TotalSize(disk) = cache_limit
    /\ on_demand_mode
    /\ pc = "done"
    /\ "flower" \in DOMAIN loaded_wildcards

\* C17: the loading mode changes only in the reload step of a refresh, which
\* sets it by the size of the files then on disk; no step of a process()
\* call and no file edit changes it.
C17_ModeOnlyAtRefresh ==
    [][ /\ (on_demand_mode' /= on_demand_mode) => (rpc = "cleared" /\ rpc' = "idle")
        /\ (rpc = "cleared" /\ rpc' = "idle")
            => on_demand_mode' = determine_loading_mode(disk, cache_limit)
      ]_vars

\* a store that started in on-demand mode is in full cache mode after the
\* files shrank and a refresh ran, and has answered a call since
C17_Witness ==
    /\ determine_loading_mode(0, cache_limit)
    /\ ~on_demand_mode
    /\ rpc = "idle"
    /\ pc = "done"
    /\ last.phase = 1

\* the key has a value in the store as it is now
ResolvesNow(key) ==
    get_wildcard_value(on_demand_mode, wildcard_dict, available_wildcards,
                       loaded_wildcards, disk, key).res.ok

\* C18: a call on the first key of a chain of 100 nested wildcard files, or
\* on a key further down the chain, returns a text in which no __name__
\* token is left that resolves to a key.
C18_ChainExpanded ==
    pc = "done"
        => \A i \in DOMAIN ret :
              ret[i].t = "wc" => ~ResolvesNow(wildcard_normalize(ret[i].v))

C18_Witness ==
    /\ pc = "done"
    /\ in_text = <<Wc("c1")>>
    /\ iter = max_iterations
    /\ ret = <<Lit("leaf")>>
    /\ on_demand_mode
    /\ last = [key |-> "c100", phase |-> 2, res |-> Some(<<<<Lit("leaf")>>>>)]

\* the sequences of n pairwise-distinct positions of a list of k options
DistinctPositions(n, k) ==
    {p \in [1..n -> 1..k] : \A i, j \in 1..n : i /= j => p[i] /= p[j]}

\* the text holds the options at the positions p, in that order, with the
\* separator between each two of them
HoldsOptions(txt, p, opts, sep) ==
    LET n == Len(p)
        w == 1 + Len(sep)
    IN  /\ Len(txt) = n + (n - 1) * Len(sep)
        /\ \A i \in 1..n : txt[(i - 1) * w + 1] = Lit(opts[p[i]])
        /\ \A i \in 1..(n - 1) : SubSeq(txt, (i - 1) * w + 2, i * w) = sep

\* the multi-select blocks with a count n that is not larger than the number
\* of options
CountWithin ==
    { [n |-> 3, sep |-> <<Lit(","), Sp>>, opts |-> <<"a", "b", "c", "d", "e">>],
      [n |-> 2, sep |-> <<Sp, Lit("and"), Sp>>, opts |-> <<"red", "blue", "green">>],
      [n |-> 4, sep |-> <<Dash>>, opts |-> <<"cat", "dog", "bird", "fish">>],
      [n |-> 2, sep |-> <<Dash>>, opts |-> <<"a", "a", "b">>] }

\* C19: a call on a block n$$sep$$o1|...|ok with n <= k returns n options
\* taken from n pairwise-distinct positions of the option list, joined by
\* sep; {3$$, $$a|b|c|d|e} returns 3 of a..e joined by comma-space.
C19_MultiSelectExact ==
    \A c \in CountWithin :
        (pc \in {"done", "raised"} /\ in_text = MultiBlock(c.n, c.sep, c.opts))
            => /\ pc = "done"
               /\ \E p \in DistinctPositions(c.n, Len(c.opts)) :
                     HoldsOptions(ret, p, c.opts, c.sep)

C19_Witness ==
    /\ pc = "done"
    /\ in_text = MultiBlock(3, <<Lit(","), Sp>>, <<"a", "b", "c", "d", "e">>)
    /\ Len(ret) = 7
    /\ ret[2] = Lit(",") /\ ret[3] = Sp
    /\ {ret[1].v, ret[4].v, ret[7].v} \in {S \in SUBSET {"a", "b", "c", "d", "e"} : Cardinality(S) = 3}

\* C20: a call on a block that asks for 5 of 3 options returns without an
\* exception, and what it returns are the 3 options, each once, joined by
\* the separator.
C20_CountClamped ==
    (pc \in {"done", "raised"}
        /\ in_text = MultiBlock(5, <<Lit(","), Sp>>, <<"a", "b", "c">>))
        => /\ pc = "done"
           /\ \E p \in DistinctPositions(3, 3) :
                 HoldsOptions(ret, p, <<"a", "b", "c">>, <<Lit(","), Sp>>)

C20_Witness ==
    /\ pc = "done"
    /\ in_text = MultiBlock(5, <<Lit(","), Sp>>, <<"a", "b", "c">>)
    /\ Len(ret) = 7
    /\ {ret[1].v, ret[4].v, ret[7].v} = {"a", "b", "c"}

\* the share of the variates of the prompt T that expand it to res: how
\* many of them do, and how many variates there are
Share(T, res) ==
    << Cardinality({u \in 0..(TotalWeight(Inner(T)) - 1) :
                        replace_options(T, u).text = res}),
       TotalWeight(Inner(T)) >>

\* C21: {10::common|1::rare} returns the text after the ::, common with 10
\* of 11 chances and rare with 1 of 11; {common::10|rare::1} returns each of
\* its two options with 1 of 2 chances.
C21_WeightBeforeText ==
    /\ (pc = "done"
          /\ in_text = <<Open, Num(10), CC, Lit("common"), Bar, Num(1), CC, Lit("rare"), Close>>)
          => \/ ret = <<Lit("common")>> /\ Share(in_text, ret) = <<10, 11>>
             \/ ret = <<Lit("rare")>> /\ Share(in_text, ret) = <<1, 11>>
    /\ (pc = "done"
          /\ in_text = <<Open, Lit("common"), CC, Num(10), Bar, Lit("rare"), CC, Num(1), Close>>)
          => /\ ret /= <<>>
             /\ ret[1] \in {Lit("common"), Lit("rare")}
             /\ Share(in_text, ret) = <<1, 2>>

C21_Witness ==
    /\ pc = "done"
    /\ in_text = <<Open, Lit("common"), CC, Num(10), Bar, Lit("rare"), CC, Num(1), Close>>
    /\ rng = 1
    /\ ret /= <<>>
    /\ ret[1] = Lit("rare")

\* the weighted prompts with the options they name and the weight of each
WeightCases ==
    { [text |-> <<Open, Num(5), CC, Lit("high"), Bar, Num(3), CC, Lit("medium"), Bar,
                  Num(2), CC, Lit("low"), Close>>,
       opts |-> <<"high", "medium", "low">>, w |-> <<5, 3, 2>>, sum |-> 10],
      [text |-> <<Open, Num(1), CC, Lit("alpha"), Bar, Num(1), CC, Lit("beta"), Bar,
                  Num(1), CC, Lit("gamma"), Close>>,
       opts |-> <<"alpha", "beta", "gamma">>, w |-> <<1, 1, 1>>, sum |-> 3],
      [text |-> <<Open, Num(10), CC, Lit("weighted"), Bar, Lit("unweighted"), Close>>,
       opts |-> <<"weighted", "unweighted">>, w |-> <<10, 1>>, sum |-> 11],
      [text |-> <<Open, Num(5), CC, Lit("red"), Bar, Lit("green"), Bar,
                  Num(2), CC, Lit("blue"), Close>>,
       opts |-> <<"red", "green", "blue">>, w |-> <<5, 1, 2>>, sum |-> 8] }

\* C22: a weighted block returns one of its options, and the share of the
\* variates that return an option is its weight out of the sum of the
\* weights, an option without a weight counting 1.
C22_ShareIsWeight ==
    \A c \in WeightCases :
        (pc = "done" /\ in_text = c.text)
            => \E i \in DOMAIN c.opts :
                  /\ ret = <<Lit(c.opts[i])>>
                  /\ Share(in_text, ret) = <<c.w[i], c.sum>>

C22_Witness ==
    /\ pc = "done"
    /\ in_text = <<Open, Num(5), CC, Lit("red"), Bar, Lit("green"), Bar,
                   Num(2), CC, Lit("blue"), Close>>
    /\ rng = 5
    /\ ret = <<Lit("green")>>

\* the first pass of the call has rewritten the text and has not yet looked
\* at a wildcard
FirstPassRewritten == pc = "wild" /\ iter = 0 /\ pos = 1

\* C23: when the first pass of a call on 3#__flower__ (on x 2#__nope__, on
\* {2$$, $$3#__flower__}) comes to its wildcards, the text holds 3 (2) times
\* the token joined by | (2 of the 3 copies joined by comma-space), and the
\* call has resolved no wildcard yet.
C23_QuantifierUnrolled ==
    FirstPassRewritten =>
        /\ in_text = <<Num(3), Hash, Wc("flower")>>
            => /\ work = <<Wc("flower"), Bar, Wc("flower"), Bar, Wc("flower")>>
               /\ last = NoLast
        /\ in_text = <<Lit("x"), Sp, Num(2), Hash, Wc("nope")>>
            => /\ work = <<Lit("x"), Sp, Wc("nope"), Bar, Wc("nope")>>
               /\ last = NoLast
        /\ in_text = <<Open, Num(2), DD, Lit(","), Sp, DD, Num(3), Hash, Wc("flower"), Close>>
            => /\ work = <<Wc("flower"), Lit(","), Sp, Wc("flower")>>
               /\ last = NoLast

C23_Witness ==
    /\ pc = "done"
    /\ in_text = <<Num(3), Hash, Wc("flower")>>
    /\ ret = <<Lit("rose"), Bar, Lit("tulip"), Bar, Lit("rose")>>
    /\ last.key = "flower"

\* the two texts are spellings of the same wildcard name
SameName(T, U) ==
    \/ {T, U} \subseteq {<<Wc("flower")>>, <<Wc("FLOWER")>>, <<Wc("Flower")>>}
    \/ {T, U} \subseteq {<<Wc("dragon")>>, <<Wc("DRAGON")>>, <<Wc("Dragon")>>}

\* C24: two process() calls with the same seed on spellings of one wildcard
\* name that differ only in letter case return the same text.
C24_CaseInsensitive ==
    (pc = "done" /\ memo.set /\ memo.seed = in_seed /\ SameName(memo.text, in_text))
        => ret = memo.result

C24_Witness ==
    /\ pc = "done" /\ memo.set /\ memo.seed = in_seed
    /\ memo.text = <<Wc("flower")>>
    /\ in_text = <<Wc("FLOWER")>>
    /\ ret = <<Lit("tulip")>>
    /\ ret = memo.result

\* the call is about to make its first pass: text is the buffer that
\* process_comment_out has produced
FirstPassBuffer == pc = "options" /\ iter = 0

\* C25 as stated: the buffer of the first pass holds no # (all that follows
\* a # up to the end of its line is gone, the # included).
C25_HashToEolRemoved ==
    FirstPassBuffer => \A i \in DOMAIN text : text[i] /= Hash

\* C25: in the buffer of the first pass the lines that start with # are
\* gone and the line after such a line is joined to the line before it by
\* one space; a # inside a line stays, with the rest of its line.
C25_CommentLinesRemoved ==
    FirstPassBuffer =>
        /\ in_text = <<Lit("p"), NL, Hash, Lit("c"), NL, Lit("q")>>
            => text = <<Lit("p"), Sp, Lit("q")>>
        /\ in_text = <<Lit("first"), Sp, Open, Lit("a"), Bar, Lit("b"), Bar, Lit("c"),
                       Close, Sp, Lit("second"), Sp, Hash, Sp, Lit("not a comment,"), NL,
                       Hash, Sp, Lit("this is a comment"), NL, Lit("trailing text")>>
            => text = <<Lit("first"), Sp, Open, Lit("a"), Bar, Lit("b"), Bar, Lit("c"),
                        Close, Sp, Lit("second"), Sp, Hash, Sp, Lit("not a comment,"),
                        Sp, Lit("trailing text")>>
        /\ in_text = <<Lit("first"), Sp, Lit("second"), Sp, Hash, Sp, Lit("comment"), NL,
                       Lit("third")>>
            => text = in_text

C25_Witness ==
    /\ FirstPassBuffer
    /\ Len(in_text) = 21
    /\ Len(text) = 17
    /\ text[13] = Hash
    /\ text[16] = Sp
    /\ text[17] = Lit("trailing text")

\* C26: a call on {p|q or on x {a|b, with no closing brace, returns the text
\* as it was given; a call on {a|{b|c} returns {a|b or {a|c, the opening
\* brace that is not closed and what follows it kept as text; no such call
\* ends in an exception.
C26_UnclosedKept ==
    /\ in_text \in {<<Open, Lit("p"), Bar, Lit("q")>>,
                     <<Lit("x"), Sp, Open, Lit("a"), Bar, Lit("b")>>}
        => /\ pc /= "raised"
           /\ pc = "done" => ret = in_text
    /\ in_text = <<Open, Lit("a"), Bar, Open, Lit("b"), Bar, Lit("c"), Close>>
        => /\ pc /= "raised"
           /\ pc = "done" => ret \in {<<Open, Lit("a"), Bar, Lit("b")>>,
                                      <<Open, Lit("a"), Bar, Lit("c")>>}

C26_Witness ==
    /\ pc = "done"
    /\ in_text = <<Open, Lit("a"), Bar, Open, Lit("b"), Bar, Lit("c"), Close>>
    /\ ret = <<Open, Lit("a"), Bar, Lit("c")>>
    /\ iter = 2

\* what the list endpoints answer in the state as it is
ListAvailable ==
    get_wildcard_list(on_demand_mode, wildcard_dict, available_wildcards,
                      loaded_wildcards)
ListLoaded ==
    get_loaded_wildcards(on_demand_mode, wildcard_dict, available_wildcards,
                         loaded_wildcards)

\* the list of available keys right after startup on the files as they are
StartupList ==
    LET st == FreshStore(disk, cache_limit)
    IN  get_wildcard_list(st.mode, st.dict, st.avail, st.loaded)

LoadedKeysOnly ==
    /\ pc \in {"options", "wild"}
    /\ HasWc => Keyword \in DOMAIN loaded_wildcards

\* C28: in on-demand mode a step of a call that resolves a key of the loaded
\* index, or that resolves no key, leaves the set of keys of the loaded list
\* as it is.
C28_CachedAccessKeepsLoaded ==
    [][(on_demand_mode /\ LoadedKeysOnly) => ListLoaded'.data = ListLoaded.data]_vars

C28_Witness ==
    /\ pc = "done"
    /\ on_demand_mode
    /\ in_text = <<Wc("flower"), Sp, Lit("x")>>
    /\ last = [key |-> "flower", phase |-> 1,
               res |-> Some(<<<<Lit("rose")>>, <<Lit("tulip")>>>>)]
    /\ ListLoaded.data = {Wc("colors/warm"), Wc("colors/cold"), Wc("flower")}

\* the loaded list right after startup on the files as they are
StartupLoaded ==
    LET st == FreshStore(disk, cache_limit)
    IN  get_loaded_wildcards(st.mode, st.dict, st.avail, st.loaded)

\* C29: in on-demand mode, after a call on __flower__, on __Dragon__, on the
\* YAML key __colors/warm__ or on __warm__, the loaded list holds more keys
\* than after startup.
C29_NewReferenceLoads ==
    (pc = "done" /\ on_demand_mode
        /\ in_text \in {<<Wc("flower"), Sp, Lit("x")>>, <<Wc("Dragon")>>,
                         <<Wc("colors/warm")>>, <<Wc("warm")>>})
        => Cardinality(ListLoaded.data) > Cardinality(StartupLoaded.data)

\* calls of a node that wait for the network
InFlight(nd) ==
    IF "fetches" \in DOMAIN nd THEN Len(nd.fetches)
    ELSE nd.fetching + nd.reading_ok + nd.reading_err

\* C30: a node never has more than one refreshNodeInfo or refreshModelList
\* call waiting for the network.
C30_OneFetchInFlight ==
    \A n \in DOMAIN nodes : InFlight(nodes[n]) <= 1

C30_Witness ==
    /\ InFlight(nodes["rh1"]) = 1 /\ nodes["rh1"].returned = "busy"
    /\ InFlight(nodes["ac1"]) = 1 /\ nodes["ac1"].returned = "busy"

\* no timer of the RunningHub node is pending and no fetch is in flight
RHQuiet(nd) == nd._smartRefreshTimeout = NoTimer /\ nd.fetches = <<>>

\* C31: when no timer is pending, no fetch is in flight and every fetch gave
\* a list, the dynamic widgets of a RunningHub node are those fetched for its
\* current api_key and webapp_id, and there are none when either is empty.
C31_WidgetsMatchFinalPair ==
    \A n \in RHNodes :
        LET nd == nodes[n]
        IN  (RHQuiet(nd) /\ ~nd.failed) =>
                nd.widgets = IF nd.api_key = "" \/ nd.webapp_id = ""
                             THEN NoWidgets
                             ELSE <<nd.api_key, nd.webapp_id>>

\* the in-progress flag of a node
InProgress(nd) ==
    IF "_refreshing" \in DOMAIN nd THEN nd._refreshing ELSE nd.__apicoreModelLoading

\* C32: whenever the in-progress flag of a node is set, it is cleared again
\* later, whatever the requests of the call give.
C32_FlagClearedAgain ==
    \A n \in RHNodes \cup ACNodes : InProgress(nodes[n]) ~> ~InProgress(nodes[n])

C32_Witness ==
    /\ ~InProgress(nodes["rh1"]) /\ nodes["rh1"].failed
    /\ nodes["rh1"].returned = "started"
    /\ ~InProgress(nodes["ac1"]) /\ nodes["ac1"].values = "failed"
    /\ nodes["ac1"].returned = "started"

\* the burst of changes of the node is over and its timer has fired
BurstOver(n) ==
    LET nd == nodes[n]
    IN  /\ nd.burst /\ nd.since = DelayOf(n)
        /\ IF n \in RHNodes
           THEN nd._smartRefreshTimeout = NoTimer /\ nd.api_key # "" /\ nd.webapp_id # ""
           ELSE nd.__apicoreModelDebounce = NoTimer

\* C33: no refresh is started by the debounce timer between two changes of a
\* burst, and when a burst is over (for a RunningHub node: with both fields
\* filled in) the timer has started exactly one refresh.
C33_OneRefreshPerBurst ==
    \A n \in RHNodes \cup ACNodes :
        /\ ~nodes[n].mid_burst
        /\ BurstOver(n) => nodes[n].calls = 1

\* C34: a node of Overlay Text, Switch, API Core or Inversed Switch always
\* has a dynamic port without a link once its port manager has returned.
C34_SpareSlot ==
    graph.kind \in {"overlay", "switch", "apicore", "inversed"} =>
        \E i \in DOMAIN graph.ports : graph.ports[i].dyn /\ ~graph.ports[i].link

C34_Witness ==
    /\ graph.kind = "inversed"
    /\ graph.ports = <<Port(TRUE, TRUE), Port(TRUE, TRUE), Port(TRUE, FALSE)>>

\* C35: no port manager removes a port that holds a link.
C35_LinkedPortsKept == ~graph.lost_link

C35_Witness ==
    /\ graph.kind = "jimeng" /\ graph.pending = 0
    /\ graph.ports = <<Port(FALSE, FALSE), Port(TRUE, FALSE), Port(TRUE, TRUE)>>

\* C36: after manageInputs of Overlay Text, Switch or API Core the number of
\* dynamic inputs is the number of linked dynamic inputs plus one.
C36_CountIsConnectedPlusOne ==
    graph.kind \in {"overlay", "switch", "apicore"} =>
        Len(getDynamicInputs(graph.ports)) = ConnectedCount(graph.ports) + 1

\* C37: the Path widget of a Switch or an Inversed Switch holds at most the
\* number of dynamic ports of the node, counted as 1 when there are none.
C37_PathWithinPorts ==
    graph.kind \in {"switch", "inversed"} =>
        graph.path <= Max(1, Len(getDynamicInputs(graph.ports)))

C37_Witness ==
    /\ graph.kind = "switch"
    /\ graph.path = 2 /\ graph.path_max = 2
    /\ graph.ports = <<Port(TRUE, FALSE), Port(TRUE, TRUE)>>

\* C38: at most one of the Text Blocks linked to the Overlay Text node has
\* set_as_default switched on.
C38_OneDefaultBlock ==
    graph.kind = "blocks" =>
        Cardinality({b \in Blocks : graph.blocks[b].linked
                                    /\ graph.blocks[b].set_as_default}) <= 1

\* C39: applying default values to a Text Block or restoring its original
\* defaults changes no widget that is marked as modified by the user.
C39_UserValuesKept == graph.kind = "blocks" => ~graph.clobbered

\* C40 as stated: initialize sets its timer at most 5 times after
\* initialize(5) was called.
C40_AtMostFiveReschedules ==
    graph.kind = "getvar" => graph.scheduled <= InitRetries

\* C40: initialize sets its timer at most 6 times after initialize(5) was
\* called, the last call only reports the failure, and from some point on no
\* timer of initialize is pending, whatever the setters do.
C40_InitializeStops ==
    /\ [](graph.kind = "getvar" => graph.scheduled <= InitRetries + 1)
    /\ <>[](graph.kind = "getvar" => ~graph.timer)

C40_Witness ==
    /\ graph.kind = "getvar"
    /\ graph.added
    /\ graph.options = {"none"}
    /\ graph.scheduled = InitRetries + 1
    /\ graph.retries < 0
    /\ ~graph.timer

====
